---- MODULE Spec2Model ----
(***************************************************************************)
(* filters-query-params: the debounce helper (src/src/next.ts) and the     *)
(* query codec (src/src/core.ts, serializers) as state machines.           *)
(*                                                                         *)
(* A JavaScript string is a sequence of one-character strings; a           *)
(* JavaScript value is a record [t |-> type tag, v |-> payload].           *)
(***************************************************************************)
EXTENDS Integers, Sequences, FiniteSets, TLC

(***************************************************************************)
(* Bounds                                                                  *)
(***************************************************************************)
MaxCalls == 3       \* invocations of the debounced function per behaviour
MaxDirect == 1      \* cancel() plus flush() calls per behaviour
TickMs == 100       \* milliseconds by which one clock step advances time

(***************************************************************************)
(* Part I - debounce (src/src/next.ts:54-108)                              *)
(***************************************************************************)
VARIABLES
  waitArg,           \* the `wait` argument debounce() was constructed with
  timeoutId,         \* closure variable: id of the pending timer, 0 for null
  pendingResolvers,  \* closure variable: callers waiting, invocation order
  timers,            \* the host's timer table: timers set and not cleared
  nextTimerId,       \* the host's next timer id
  promises,          \* one record per invocation: its promise and arguments
  execs,             \* the executions of the underlying function, in order
  sinceInvoke,       \* ms elapsed since the most recent invocation (capped)
  directCalls,       \* number of cancel()/flush() calls made so far
  lastOp,            \* the operation that ran last, with flush's result
  codec,             \* Part II: the last codec call and what it returned
  hook,              \* Part IV: one component using useFiltersGeneric
  heap               \* Part III: the objects of the caller and of the codec

debVars == <<waitArg, timeoutId, pendingResolvers, timers, nextTimerId, promises,
             execs, sinceInvoke, directCalls, lastOp>>
vars == <<waitArg, timeoutId, pendingResolvers, timers, nextTimerId, promises,
          execs, sinceInvoke, directCalls, lastOp, codec, hook, heap>>

DefaultWait == 300
\* debounce(func) and debounce(func, TickMs)
WaitArgs == {[given |-> FALSE, ms |-> 0], [given |-> TRUE, ms |-> TickMs]}
Args == {0, 1}
NoOutcome == [kind |-> "none", v |-> 0, msg |-> ""]
CancelError == [kind |-> "throw", v |-> 0, msg |-> "Debounced function was cancelled"]

\* `wait: number = 300`: the default applies when the argument is not given
WaitOf(w) == IF w.given THEN w.ms ELSE DefaultWait
wait == WaitOf(waitArg)

\* The underlying function of the tests, (x) => x * 2, made to throw on 0 the
\* way parseQuery throws on an input the schema rejects.
func(a) ==
  IF a = 0 THEN [kind |-> "throw", v |-> 0, msg |-> "func failed"]
  ELSE [kind |-> "return", v |-> a * 2, msg |-> ""]

SettleMutant(p, outcome, by) ==
  IF p.state # "pending" THEN p
  ELSE [p EXCEPT !.state = "fulfilled", !.outcome = outcome, !.by = by]

\* resolve()/reject() of a promise: only the first settlement has an effect
Settle(p, outcome, by) ==
  IF p.state # "pending" THEN p
  ELSE [p EXCEPT !.state = IF outcome.kind = "return" THEN "fulfilled" ELSE "rejected",
                 !.outcome = outcome,
                 !.by = by]

SettleAll(ps, resolvers, outcome, by) ==
  [c \in DOMAIN ps |->
     IF \E i \in DOMAIN resolvers : resolvers[i] = c
     THEN Settle(ps[c], outcome, by) ELSE ps[c]]

Last(s) == s[Len(s)]

ClearTimeoutMutant(table, id) == table

\* clearTimeout(id): the host forgets the timer
ClearTimeout(table, id) == {t \in table : t.id # id}

PushResolverMutant(pending, c) == <<c>>

\* pendingResolvers.push({ resolve, reject })
PushResolver(pending, c) == Append(pending, c)

AdvanceCap(ms) == IF ms >= wait THEN ms ELSE ms + TickMs

DebInit ==
  /\ waitArg \in WaitArgs
  /\ timeoutId = 0
  /\ pendingResolvers = <<>>
  /\ timers = {}
  /\ nextTimerId = 1
  /\ promises = <<>>
  /\ execs = <<>>
  /\ sinceInvoke = 0
  /\ directCalls = 0
  /\ lastOp = [op |-> "none", args |-> 0, ret |-> NoOutcome]

NewPromise(a) ==
  [args |-> a, state |-> "pending", outcome |-> NoOutcome, by |-> "none",
   superseded |-> FALSE]

\* a debounce that fails the callers it supersedes
InvokeMutant(a) ==
  /\ Len(promises) < MaxCalls
  /\ promises' = Append(SettleAll(promises, pendingResolvers, CancelError, "invoke"),
                        NewPromise(a))
  /\ pendingResolvers' = <<Len(promises) + 1>>
  /\ timers' = (IF timeoutId # 0 THEN ClearTimeout(timers, timeoutId) ELSE timers)
                  \cup {[id |-> nextTimerId, call |-> Len(promises) + 1, elapsed |-> 0]}
  /\ timeoutId' = nextTimerId
  /\ nextTimerId' = nextTimerId + 1
  /\ sinceInvoke' = 0
  /\ lastOp' = [op |-> "invoke", args |-> a, ret |-> NoOutcome]
  /\ UNCHANGED <<waitArg, execs, directCalls, codec, hook, heap>>

\* debounced(...args)                                    next.ts:64-88
Invoke(a) ==
  /\ Len(promises) < MaxCalls
  /\ LET c == Len(promises) + 1
         cleared == IF timeoutId # 0 THEN ClearTimeout(timers, timeoutId) ELSE timers
     IN /\ promises' =
             Append([i \in DOMAIN promises |->
                       IF promises[i].state = "pending"
                       THEN [promises[i] EXCEPT !.superseded = TRUE]
                       ELSE promises[i]],
                    NewPromise(a))
        /\ pendingResolvers' = PushResolver(pendingResolvers, c)
        /\ timers' = cleared \cup {[id |-> nextTimerId, call |-> c, elapsed |-> 0]}
        /\ timeoutId' = nextTimerId
        /\ nextTimerId' = nextTimerId + 1
  /\ sinceInvoke' = 0
  /\ lastOp' = [op |-> "invoke", args |-> a, ret |-> NoOutcome]
  /\ UNCHANGED <<waitArg, execs, directCalls, codec, hook, heap>>

\* the callback given to setTimeout, run by the host      next.ts:73-86
TimerFire(t) ==
  /\ t \in timers
  /\ t.elapsed >= wait
  /\ LET resolvers == pendingResolvers
         outcome == func(promises[t.call].args)
     IN /\ pendingResolvers' = <<>>
        /\ timeoutId' = 0
        /\ execs' = Append(execs, [by |-> "timer", call |-> t.call,
                                   args |-> promises[t.call].args,
                                   resolvers |-> resolvers,
                                   outcome |-> outcome,
                                   waited |-> sinceInvoke])
        /\ promises' = SettleAll(promises, resolvers, outcome, "timer")
  /\ timers' = timers \ {t}
  /\ lastOp' = [op |-> "fire", args |-> 0, ret |-> NoOutcome]
  /\ UNCHANGED <<waitArg, nextTimerId, sinceInvoke, directCalls, codec, hook, heap>>

CancelTimerOfMutant(id, table) == table

\* `if (timeoutId) { clearTimeout(timeoutId); ... }`       next.ts:91-94
CancelTimerOf(id, table) == IF id # 0 THEN ClearTimeout(table, id) ELSE table

\* debounced.cancel()                                     next.ts:90-100
Cancel ==
  /\ directCalls < MaxDirect
  /\ timers' = CancelTimerOf(timeoutId, timers)
  /\ timeoutId' = 0
  /\ promises' = SettleAll(promises, pendingResolvers, CancelError, "cancel")
  /\ pendingResolvers' = <<>>
  /\ directCalls' = directCalls + 1
  /\ lastOp' = [op |-> "cancel", args |-> 0, ret |-> NoOutcome]
  /\ UNCHANGED <<waitArg, nextTimerId, execs, sinceInvoke, codec, hook, heap>>

\* a flush that runs the pending invocation instead of its own arguments
FlushMutant(a) ==
  /\ directCalls < MaxDirect
  /\ timers' = CancelTimerOf(timeoutId, timers)
  /\ timeoutId' = 0
  /\ promises' = SettleAll(promises, pendingResolvers, CancelError, "flush")
  /\ pendingResolvers' = <<>>
  /\ LET b == IF pendingResolvers = <<>> THEN a
              ELSE promises[Last(pendingResolvers)].args
     IN /\ execs' = Append(execs, [by |-> "flush", call |-> 0, args |-> b,
                                   resolvers |-> <<>>, outcome |-> func(b),
                                   waited |-> sinceInvoke])
        /\ lastOp' = [op |-> "flush", args |-> a, ret |-> func(b)]
  /\ directCalls' = directCalls + 1
  /\ UNCHANGED <<waitArg, nextTimerId, sinceInvoke, codec, hook, heap>>

\* debounced.flush(...args): cancel(), then func(...args)  next.ts:102-105
Flush(a) ==
  /\ directCalls < MaxDirect
  /\ timers' = CancelTimerOf(timeoutId, timers)
  /\ timeoutId' = 0
  /\ promises' = SettleAll(promises, pendingResolvers, CancelError, "flush")
  /\ pendingResolvers' = <<>>
  /\ execs' = Append(execs, [by |-> "flush", call |-> 0, args |-> a,
                             resolvers |-> <<>>, outcome |-> func(a),
                             waited |-> sinceInvoke])
  /\ directCalls' = directCalls + 1
  /\ lastOp' = [op |-> "flush", args |-> a, ret |-> func(a)]
  /\ UNCHANGED <<waitArg, nextTimerId, sinceInvoke, codec, hook, heap>>

\* the host's clock advances by TickMs
Tick ==
  /\ \/ sinceInvoke < wait
     \/ \E t \in timers : t.elapsed < wait
  /\ timers' = {[t EXCEPT !.elapsed = AdvanceCap(t.elapsed)] : t \in timers}
  /\ sinceInvoke' = AdvanceCap(sinceInvoke)
  /\ UNCHANGED <<waitArg, timeoutId, pendingResolvers, nextTimerId, promises,
                 execs, directCalls, lastOp, codec, hook, heap>>

(***************************************************************************)
(* Part II - the query codec (src/src/core.ts, serializers)                *)
(*                                                                         *)
(* Strings are sequences of characters.  The characters that occur are     *)
(* letters, digits, "-", "." and "_" (which the query-string encoding      *)
(* leaves alone), the space, and the reserved characters of EncTable.      *)
(***************************************************************************)
MaxPairs == 2       \* key/value pairs in a query given to parseQuery
MaxItems == 2       \* items in a sequence given for an array field

Digits == <<"0", "1", "2", "3", "4", "5", "6", "7", "8", "9">>
IsDigit(c) == \E i \in 1..10 : Digits[i] = c
DigitVal(c) == (CHOOSE i \in 1..10 : Digits[i] = c) - 1
IsWhite(c) == c = " "

RECURSIVE Flatten(_)
Flatten(ss) == IF ss = <<>> THEN <<>> ELSE Head(ss) \o Flatten(Tail(ss))

RECURSIVE Join(_, _)
\* Array.prototype.join
Join(ss, sep) ==
  IF ss = <<>> THEN <<>>
  ELSE IF Len(ss) = 1 THEN ss[1]
  ELSE ss[1] \o sep \o Join(Tail(ss), sep)

\* index of the first occurrence of character c in s, 0 when there is none
IndexOf(s, c) ==
  IF \E i \in DOMAIN s : s[i] = c
  THEN CHOOSE i \in DOMAIN s : s[i] = c /\ \A j \in 1..(i - 1) : s[j] # c
  ELSE 0

RECURSIVE Split(_, _)
\* String.prototype.split on a one-character separator
Split(s, c) ==
  LET i == IndexOf(s, c)
  IN IF i = 0 THEN <<s>>
     ELSE <<SubSeq(s, 1, i - 1)>> \o Split(SubSeq(s, i + 1, Len(s)), c)

RECURSIVE TrimStart(_)
TrimStart(s) == IF s # <<>> /\ IsWhite(Head(s)) THEN TrimStart(Tail(s)) ELSE s
RECURSIVE TrimEnd(_)
TrimEnd(s) ==
  IF s # <<>> /\ IsWhite(s[Len(s)]) THEN TrimEnd(SubSeq(s, 1, Len(s) - 1)) ELSE s
\* String.prototype.trim
Trim(s) == TrimEnd(TrimStart(s))

LowerOf(c) ==
  CASE c = "T" -> "t" [] c = "R" -> "r" [] c = "U" -> "u" [] c = "E" -> "e"
    [] c = "Y" -> "y" [] c = "S" -> "s" [] c = "N" -> "n" [] c = "O" -> "o"
    [] c = "F" -> "f" [] c = "A" -> "a" [] c = "L" -> "l" [] c = "I" -> "i"
    [] OTHER -> c
\* String.prototype.toLowerCase
ToLowerCase(s) == [i \in DOMAIN s |-> LowerOf(s[i])]

StartsWith(s, p) == Len(s) >= Len(p) /\ SubSeq(s, 1, Len(p)) = p

(***************************************************************************)
(* JavaScript values: [t, s, n, a] with t the type, s the characters of a  *)
(* string, n the number (1/0 for true/false, the sign of an infinity, the  *)
(* time value of a Date) and a the elements of an array.                   *)
(***************************************************************************)
Str(s) == [t |-> "string", s |-> s, n |-> 0, a |-> <<>>]
Num(n) == [t |-> "number", s |-> <<>>, n |-> n, a |-> <<>>]
Infinite(sign) == [t |-> "infinity", s |-> <<>>, n |-> sign, a |-> <<>>]
NaN == [t |-> "NaN", s |-> <<>>, n |-> 0, a |-> <<>>]
Bool(b) == [t |-> "boolean", s |-> <<>>, n |-> IF b THEN 1 ELSE 0, a |-> <<>>]
DateOf(ms) == [t |-> "Date", s |-> <<>>, n |-> ms, a |-> <<>>]
InvalidDate == [t |-> "InvalidDate", s |-> <<>>, n |-> 0, a |-> <<>>]
Undef == [t |-> "undefined", s |-> <<>>, n |-> 0, a |-> <<>>]
Null == [t |-> "null", s |-> <<>>, n |-> 0, a |-> <<>>]
Arr(a) == [t |-> "array", s |-> <<>>, n |-> 0, a |-> a]

S_true == <<"t", "r", "u", "e">>
S_false == <<"f", "a", "l", "s", "e">>
S_yes == <<"y", "e", "s">>
S_no == <<"n", "o">>
S_null == <<"n", "u", "l", "l">>
S_undefined == <<"u", "n", "d", "e", "f", "i", "n", "e", "d">>
S_Infinity == <<"I", "n", "f", "i", "n", "i", "t", "y">>
S_NaN == <<"N", "a", "N">>

RECURSIVE NatToString(_)
NatToString(n) ==
  IF n < 10 THEN <<Digits[n + 1]>>
  ELSE NatToString(n \div 10) \o <<Digits[(n % 10) + 1]>>
\* Number.prototype.toString for an integer
IntToString(n) == IF n < 0 THEN <<"-">> \o NatToString(-n) ELSE NatToString(n)

RECURSIVE DigitsToNat(_)
DigitsToNat(s) ==
  IF s = <<>> THEN 0
  ELSE DigitsToNat(SubSeq(s, 1, Len(s) - 1)) * 10 + DigitVal(s[Len(s)])

AllDigits(s) == s # <<>> /\ \A i \in DOMAIN s : IsDigit(s[i])

\* Number(value), the string-to-number conversion: white space is trimmed, the
\* empty string is 0, a signed decimal integer is its value, a signed
\* "Infinity" is infinite and everything else is NaN.  (The strings of the
\* model hold no fraction, exponent or radix prefix.)
StringToNumber(s) ==
  LET t == Trim(s)
      signed == t # <<>> /\ t[1] \in {"-", "+"}
      body == IF signed THEN Tail(t) ELSE t
      sign == IF signed /\ t[1] = "-" THEN -1 ELSE 1
  IN IF t = <<>> THEN Num(0)
     ELSE IF AllDigits(body) THEN Num(sign * DigitsToNat(body))
     ELSE IF body = S_Infinity THEN Infinite(sign)
     ELSE NaN

\* Number.isFinite
IsFinite(v) == v.t = "number"

(***************************************************************************)
(* URLSearchParams: an ordered list of [k, v] pairs, its toString() and    *)
(* its parsing of a query string (application/x-www-form-urlencoded).      *)
(***************************************************************************)
EncTable ==
  { [c |-> "&", h |-> <<"2", "6">>], [c |-> "=", h |-> <<"3", "D">>],
    [c |-> "+", h |-> <<"2", "B">>], [c |-> "%", h |-> <<"2", "5">>],
    [c |-> ",", h |-> <<"2", "C">>], [c |-> "[", h |-> <<"5", "B">>],
    [c |-> "]", h |-> <<"5", "D">>], [c |-> "\"", h |-> <<"2", "2">>],
    [c |-> "?", h |-> <<"3", "F">>], [c |-> ":", h |-> <<"3", "A">>],
    [c |-> "\\", h |-> <<"5", "C">>] }

EncodeChar(c) ==
  IF c = " " THEN <<"+">>
  ELSE IF \E e \in EncTable : e.c = c
       THEN <<"%">> \o (CHOOSE e \in EncTable : e.c = c).h
       ELSE <<c>>
FormEncodeMutant(s) == s

FormEncode(s) == Flatten([i \in DOMAIN s |-> EncodeChar(s[i])])

HexUpper(c) ==
  CASE c = "a" -> "A" [] c = "b" -> "B" [] c = "c" -> "C" [] c = "d" -> "D"
    [] c = "e" -> "E" [] c = "f" -> "F" [] OTHER -> c
IsHex(c) == IsDigit(c) \/ HexUpper(c) \in {"A", "B", "C", "D", "E", "F"}
\* the character of a decoded byte; a byte that is none of the model's
\* reserved characters stays a character of its own, named by its code
ByteChar(h, l) ==
  IF \E e \in EncTable : e.h = <<h, l>>
  THEN (CHOOSE e \in EncTable : e.h = <<h, l>>).c
  ELSE IF <<h, l>> = <<"2", "0">> THEN " " ELSE "x" \o h \o l

RECURSIVE PercentDecode(_)
PercentDecode(s) ==
  IF s = <<>> THEN <<>>
  ELSE IF s[1] = "%" /\ Len(s) >= 3 /\ IsHex(s[2]) /\ IsHex(s[3])
       THEN <<ByteChar(HexUpper(s[2]), HexUpper(s[3]))>>
              \o PercentDecode(SubSeq(s, 4, Len(s)))
       ELSE <<s[1]>> \o PercentDecode(Tail(s))
FormDecode(s) ==
  PercentDecode([i \in DOMAIN s |-> IF s[i] = "+" THEN " " ELSE s[i]])

\* URLSearchParams.prototype.toString
ParamsToString(ps) ==
  Join([i \in DOMAIN ps |-> FormEncode(ps[i].k) \o <<"=">> \o FormEncode(ps[i].v)],
       <<"&">>)

ParsePiece(piece) ==
  LET i == IndexOf(piece, "=")
  IN IF i = 0 THEN [k |-> FormDecode(piece), v |-> <<>>]
     ELSE [k |-> FormDecode(SubSeq(piece, 1, i - 1)),
           v |-> FormDecode(SubSeq(piece, i + 1, Len(piece)))]

\* new URLSearchParams(string): one leading "?" of the string is removed
ParseParams(str) ==
  LET init == IF str # <<>> /\ Head(str) = "?" THEN Tail(str) ELSE str
      pieces == SelectSeq(Split(init, "&"), LAMBDA x : x # <<>>)
  IN [i \in DOMAIN pieces |-> ParsePiece(pieces[i])]

ParamsAppendMutant(ps, k, v) == <<[k |-> k, v |-> v]>> \o ps

\* URLSearchParams.prototype.append
ParamsAppend(ps, k, v) == Append(ps, [k |-> k, v |-> v])

ParamsSetMutant(ps, k, v) == ps

\* URLSearchParams.prototype.set: the first pair of the key takes the value,
\* the key's other pairs are removed; appended when the key is new
ParamsSet(ps, k, v) ==
  IF \A i \in DOMAIN ps : ps[i].k # k THEN ParamsAppend(ps, k, v)
  ELSE LET first == CHOOSE i \in DOMAIN ps :
                      ps[i].k = k /\ \A j \in 1..(i - 1) : ps[j].k # k
           set == [i \in DOMAIN ps |-> IF i = first THEN [k |-> k, v |-> v] ELSE ps[i]]
           keep == {i \in DOMAIN ps : i = first \/ ps[i].k # k}
           RECURSIVE Pick(_)
           Pick(i) == IF i > Len(ps) THEN <<>>
                      ELSE (IF i \in keep THEN <<set[i]>> ELSE <<>>) \o Pick(i + 1)
       IN Pick(1)

(***************************************************************************)
(* JSON.stringify of an array of strings and JSON.parse.  (The strings of  *)
(* the model hold no braces and no escapes other than \" and \\.)          *)
(***************************************************************************)
JsonQuote(s) ==
  <<"\"">>
    \o Flatten([i \in DOMAIN s |->
                  IF s[i] \in {"\"", "\\"} THEN <<"\\", s[i]>> ELSE <<s[i]>>])
    \o <<"\"">>
JsonStringify(items) ==
  <<"[">> \o Join([i \in DOMAIN items |-> JsonQuote(items[i])], <<",">>) \o <<"]">>

JsonFail == [ok |-> FALSE, val |-> Undef, next |-> 0]
RECURSIVE JsonSkip(_, _)
JsonSkip(s, i) == IF i <= Len(s) /\ IsWhite(s[i]) THEN JsonSkip(s, i + 1) ELSE i

RECURSIVE JsonString(_, _, _)
\* the characters of a string literal, i being just past its opening quote
JsonString(s, i, acc) ==
  IF i > Len(s) THEN JsonFail
  ELSE IF s[i] = "\"" THEN [ok |-> TRUE, val |-> Str(acc), next |-> i + 1]
  ELSE IF s[i] = "\\"
       THEN IF i < Len(s) /\ s[i + 1] \in {"\"", "\\"}
            THEN JsonString(s, i + 2, Append(acc, s[i + 1]))
            ELSE JsonFail
       ELSE JsonString(s, i + 1, Append(acc, s[i]))

RECURSIVE JsonDigitsEnd(_, _)
JsonDigitsEnd(s, i) ==
  IF i <= Len(s) /\ IsDigit(s[i]) THEN JsonDigitsEnd(s, i + 1) ELSE i

JsonNumber(s, i) ==
  LET from == IF s[i] = "-" THEN i + 1 ELSE i
      to == JsonDigitsEnd(s, from)
      ds == SubSeq(s, from, to - 1)
  IN IF ds = <<>> \/ (Len(ds) > 1 /\ ds[1] = "0") THEN JsonFail
     ELSE [ok |-> TRUE,
           val |-> Num((IF s[i] = "-" THEN -1 ELSE 1) * DigitsToNat(ds)),
           next |-> to]

JsonLiteral(s, i, word, val) ==
  IF i + Len(word) - 1 <= Len(s) /\ SubSeq(s, i, i + Len(word) - 1) = word
  THEN [ok |-> TRUE, val |-> val, next |-> i + Len(word)]
  ELSE JsonFail

RECURSIVE JsonValue(_, _), JsonElements(_, _, _)
JsonValue(s, i0) ==
  LET i == JsonSkip(s, i0)
  IN IF i > Len(s) THEN JsonFail
     ELSE IF s[i] = "[" THEN
            (IF JsonSkip(s, i + 1) <= Len(s) /\ s[JsonSkip(s, i + 1)] = "]"
             THEN [ok |-> TRUE, val |-> Arr(<<>>), next |-> JsonSkip(s, i + 1) + 1]
             ELSE JsonElements(s, i + 1, <<>>))
     ELSE IF s[i] = "\"" THEN JsonString(s, i + 1, <<>>)
     ELSE IF s[i] = "-" \/ IsDigit(s[i]) THEN JsonNumber(s, i)
     ELSE IF s[i] = "t" THEN JsonLiteral(s, i, S_true, Bool(TRUE))
     ELSE IF s[i] = "f" THEN JsonLiteral(s, i, S_false, Bool(FALSE))
     ELSE IF s[i] = "n" THEN JsonLiteral(s, i, S_null, Null)
     ELSE JsonFail
\* the elements of an array literal after "[" or ","
JsonElements(s, i, acc) ==
  LET r == JsonValue(s, i)
      j == JsonSkip(s, r.next)
  IN IF ~r.ok \/ j > Len(s) THEN JsonFail
     ELSE IF s[j] = "," THEN JsonElements(s, j + 1, Append(acc, r.val))
     ELSE IF s[j] = "]" THEN [ok |-> TRUE, val |-> Arr(Append(acc, r.val)), next |-> j + 1]
     ELSE JsonFail

\* JSON.parse: ok is FALSE where it throws a SyntaxError
JsonParse(s) ==
  LET r == JsonValue(s, 1)
  IN IF r.ok /\ JsonSkip(s, r.next) = Len(s) + 1 THEN r ELSE JsonFail

(***************************************************************************)
(* Dates.  A Date is the start (UTC) of 1 January of a year; toISOString   *)
(* and the Date constructor are modelled on the date-time string format.   *)
(***************************************************************************)
ModelYears == {1970, 2024}
\* Date.prototype.toISOString
ToISOString(year) ==
  NatToString(year)
    \o <<"-", "0", "1", "-", "0", "1", "T", "0", "0", ":", "0", "0", ":", "0", "0",
         ".", "0", "0", "0", "Z">>
\* Date.prototype.toString (what String(date) gives), in UTC
DateToString(year) ==
  (IF year = 2024 THEN <<"M", "o", "n">> ELSE <<"T", "h", "u">>)
    \o <<" ", "J", "a", "n", " ", "0", "1", " ">> \o NatToString(year)
    \o <<" ", "0", "0", ":", "0", "0", ":", "0", "0", " ", "G", "M", "T", "+",
         "0", "0", "0", "0">>
\* new Date(value): a string in neither format gives an invalid Date.  (What
\* an engine makes of other strings that hold digits is its own choice; the
\* model gives the date fields no such string.)
DateParse(s) ==
  IF \E y \in ModelYears : s = ToISOString(y) \/ s = DateToString(y)
  THEN DateOf(CHOOSE y \in ModelYears : s = ToISOString(y) \/ s = DateToString(y))
  ELSE InvalidDate

RECURSIVE JsString(_)
\* String(value)
JsString(v) ==
  CASE v.t = "string" -> v.s
    [] v.t = "number" -> IntToString(v.n)
    [] v.t = "infinity" -> (IF v.n < 0 THEN <<"-">> ELSE <<>>) \o S_Infinity
    [] v.t = "NaN" -> S_NaN
    [] v.t = "boolean" -> IF v.n = 1 THEN S_true ELSE S_false
    [] v.t = "undefined" -> S_undefined
    [] v.t = "null" -> S_null
    [] v.t = "Date" -> DateToString(v.n)
    [] v.t = "InvalidDate" -> <<"I", "n", "v", "a", "l", "i", "d", " ", "D", "a", "t", "e">>
    [] v.t = "array" ->
         Join([i \in DOMAIN v.a |->
                 IF v.a[i].t \in {"undefined", "null"} THEN <<>> ELSE JsString(v.a[i])],
              <<",">>)

(***************************************************************************)
(* Zod types as the code reads them: _def.typeName, and the wrapped type   *)
(* under _def.innerType (optional, nullable), _def.schema (effects) or     *)
(* _def.type (array element); each is a list of zero or one type.          *)
(***************************************************************************)
ZType(name) == [typeName |-> name, innerType |-> <<>>, schema |-> <<>>, type |-> <<>>]
ZString == ZType("ZodString")
ZNumber == ZType("ZodNumber")
ZBoolean == ZType("ZodBoolean")
ZDate == ZType("ZodDate")
ZArray(T) == [ZType("ZodArray") EXCEPT !.type = <<T>>]
ZOptional(T) == [ZType("ZodOptional") EXCEPT !.innerType = <<T>>]
ZNullable(T) == [ZType("ZodNullable") EXCEPT !.innerType = <<T>>]

RECURSIVE getInnerType(_)
getInnerType(zodType) ==
  IF zodType.innerType # <<>> THEN getInnerType(zodType.innerType[1])
  ELSE IF zodType.schema # <<>> THEN getInnerType(zodType.schema[1])
  ELSE zodType

isArrayTypeMutant(zodType) == zodType.typeName = "ZodArray"

isArrayType(zodType) == getInnerType(zodType).typeName = "ZodArray"
getArrayElementType(zodType) == getInnerType(zodType).type[1]

(***************************************************************************)
(* Plain objects (filter mappings): lists of [k, v] entries with distinct  *)
(* keys, in insertion order.  A schema's shape: a list of [k, ty].         *)
(***************************************************************************)
Keys(m) == {m[i].k : i \in DOMAIN m}
Has(m, k) == \E i \in DOMAIN m : m[i].k = k
Get(m, k) == IF Has(m, k) THEN m[CHOOSE i \in DOMAIN m : m[i].k = k].v ELSE Undef
\* obj[k] = v
Assign(m, k, v) ==
  IF Has(m, k) THEN [i \in DOMAIN m |-> IF m[i].k = k THEN [k |-> k, v |-> v] ELSE m[i]]
  ELSE Append(m, [k |-> k, v |-> v])
\* equality of objects: same keys holding the same values, in any order
SameObject(m1, m2) ==
  /\ Keys(m1) = Keys(m2)
  /\ \A k \in Keys(m1) : Get(m1, k) = Get(m2, k)

HasField(shape, k) == \E i \in DOMAIN shape : shape[i].k = k
Field(shape, k) == shape[CHOOSE i \in DOMAIN shape : shape[i].k = k].ty

Ok(value) == [kind |-> "ok", value |-> value, error |-> ""]
Throw(error) == [kind |-> "throw", value |-> <<>>, error |-> error]

RECURSIVE Conforms(_, _)
\* whether a value passes a zod type
Conforms(T, v) ==
  CASE T.typeName = "ZodOptional" -> v.t = "undefined" \/ Conforms(T.innerType[1], v)
    [] T.typeName = "ZodNullable" -> v.t = "null" \/ Conforms(T.innerType[1], v)
    [] T.typeName = "ZodString" -> v.t = "string"
    [] T.typeName = "ZodNumber" -> v.t \in {"number", "infinity"}
    [] T.typeName = "ZodBoolean" -> v.t = "boolean"
    [] T.typeName = "ZodDate" -> v.t = "Date"
    [] T.typeName = "ZodArray" ->
         v.t = "array" /\ \A i \in DOMAIN v.a : Conforms(T.type[1], v.a[i])
    [] OTHER -> FALSE

\* schema.parse(obj) of a z.object: every field must conform (a missing key
\* is undefined); the result holds the schema's keys the object has, in
\* schema order; keys the schema does not declare are stripped.
SchemaParse(shape, obj) ==
  IF \A i \in DOMAIN shape : Conforms(shape[i].ty, Get(obj, shape[i].k))
  THEN LET present == SelectSeq(shape, LAMBDA f : Has(obj, f.k))
       IN Ok([i \in DOMAIN present |-> [k |-> present[i].k, v |-> Get(obj, present[i].k)]])
  ELSE Throw("ZodError")

(***************************************************************************)
(* serializers (src/unnamed/part_009)                                      *)
(***************************************************************************)
Strings(ss) == Arr([i \in DOMAIN ss |-> Str(ss[i])])

\* resolveArraySerializer: the serializer a format selects
resolveArraySerializer(fmt) ==
  CASE fmt = "json" -> "json"
    [] fmt = "comma" -> "comma"
    [] OTHER -> "repeat"

\* serializeArray(key, values) of a serializer: the pairs it emits
serializeArray(ser, key, values) ==
  CASE ser = "repeat" -> [i \in DOMAIN values |-> [k |-> key, v |-> values[i]]]
    [] ser = "comma" -> <<[k |-> key, v |-> Join(values, <<",">>)]>>
    [] ser = "json" -> <<[k |-> key, v |-> JsonStringify(values)]>>

JsonDeserializeMutant(entries) == JsonParse(entries[1]).val

\* jsonSerializer.deserializeArray: JSON.parse(entries[0] ?? "[]"), [] when
\* it throws
JsonDeserialize(entries) ==
  LET r == JsonParse(IF entries = <<>> THEN <<"[", "]">> ELSE entries[1])
  IN IF r.ok THEN r.val ELSE Arr(<<>>)

CommaDeserializeLastMutant(entries) ==
  IF entries # <<>> /\ entries[Len(entries)] # <<>>
  THEN Strings(Split(entries[Len(entries)], ","))
  ELSE Arr(<<>>)

CommaDeserializeMutant(entries) == Strings(Split(entries[1], ","))

\* commaSerializer.deserializeArray: entries[0] ? entries[0].split(",") : []
CommaDeserialize(entries) ==
  IF entries # <<>> /\ entries[1] # <<>> THEN Strings(Split(entries[1], ","))
  ELSE Arr(<<>>)

\* deserializeArray(key, entries) of a serializer: the value it returns
deserializeArray(ser, key, entries) ==
  CASE ser = "repeat" -> Strings(entries)
    [] ser = "comma" -> CommaDeserialize(entries)
    [] ser = "json" -> JsonDeserialize(entries)

(***************************************************************************)
(* core (src/src/core.ts)                                                  *)
(***************************************************************************)
isEmptyMutant(val) ==
  \/ val.t \in {"undefined", "null"}
  \/ (val.t = "string" /\ Trim(val.s) = <<>>)
  \/ (val.t = "array" /\ val.a = <<>>)

isEmpty(val) ==
  \/ val.t = "undefined"
  \/ val.t = "null"
  \/ (val.t = "string" /\ Trim(val.s) = <<>>)

RECURSIVE cleanObjectMutant(_, _)
cleanObjectMutant(obj, opts) ==
  IF obj = <<>> THEN <<>>
  ELSE LET k == Head(obj).k
           v == Head(obj).v
           rest == cleanObjectMutant(Tail(obj), opts)
       IN IF opts.trimStrings /\ v.t = "string"
          THEN (IF ~(opts.dropEmpty /\ v.s = <<>>)
                THEN <<[k |-> k, v |-> Str(Trim(v.s))]>> \o rest
                ELSE rest)
          ELSE IF opts.dropEmpty /\ isEmpty(v) THEN rest
          ELSE <<Head(obj)>> \o rest

RECURSIVE cleanObject(_, _)
cleanObject(obj, opts) ==
  IF obj = <<>> THEN <<>>
  ELSE LET k == Head(obj).k
           v == Head(obj).v
           rest == cleanObject(Tail(obj), opts)
       IN IF opts.trimStrings /\ v.t = "string"
          THEN (IF ~(opts.dropEmpty /\ Trim(v.s) = <<>>)
                THEN <<[k |-> k, v |-> Str(Trim(v.s))]>> \o rest
                ELSE rest)
          ELSE IF opts.dropEmpty /\ isEmpty(v) THEN rest
          ELSE <<Head(obj)>> \o rest

CoerceNumberMutant(value) == StringToNumber(value)

\* case "ZodNumber"
CoerceNumber(value) ==
  LET n == StringToNumber(value)
  IN IF IsFinite(n) THEN n ELSE Str(value)

CoerceBooleanMutant(value) ==
  IF value \in {<<"1">>, S_true, S_yes} THEN Bool(TRUE)
  ELSE IF value \in {<<"0">>, S_false, S_no} THEN Bool(FALSE)
  ELSE Str(value)

CoerceBooleanTrimMutant(value) ==
  LET v == ToLowerCase(Trim(value))
  IN IF v \in {<<"1">>, S_true, S_yes} THEN Bool(TRUE)
     ELSE IF v \in {<<"0">>, S_false, S_no} THEN Bool(FALSE)
     ELSE Str(value)

\* case "ZodBoolean"
CoerceBoolean(value) ==
  LET v == ToLowerCase(value)
  IN IF v \in {<<"1">>, S_true, S_yes} THEN Bool(TRUE)
     ELSE IF v \in {<<"0">>, S_false, S_no} THEN Bool(FALSE)
     ELSE Str(value)

\* case "ZodDate"
CoerceDate(value) ==
  LET d == DateParse(value)
  IN IF d.t = "InvalidDate" THEN Str(value) ELSE d

coerceValue(expected, value) ==
  LET typeName == getInnerType(expected).typeName
  IN CASE typeName = "ZodNumber" -> CoerceNumber(value)
       [] typeName = "ZodBoolean" -> CoerceBoolean(value)
       [] typeName = "ZodDate" -> CoerceDate(value)
       [] typeName = "ZodArray" -> Str(value)
       [] OTHER -> Str(value)

\* options of parseQuery/buildQuery; an arrayFormat of "" and a key without
\* entry in arrayKeyFormat stand for a format not given
NoOptions ==
  [stripUnknown |-> FALSE, trimStrings |-> FALSE, dropEmpty |-> FALSE,
   coerceTypes |-> FALSE, encodeDate |-> FALSE, arrayFormat |-> "",
   arrayKeyFormat |-> <<>>]

ArrayFormatOfMutant(options, key) ==
  IF options.arrayFormat # "" THEN options.arrayFormat ELSE "repeat"

\* options.arrayKeyFormat?.[key] || options.arrayFormat || "repeat"
ArrayFormatOf(options, key) ==
  LET perKey == IF \E i \in DOMAIN options.arrayKeyFormat :
                     options.arrayKeyFormat[i].k = key
                THEN options.arrayKeyFormat[
                       CHOOSE i \in DOMAIN options.arrayKeyFormat :
                         options.arrayKeyFormat[i].k = key].fmt
                ELSE ""
  IN IF perKey # "" THEN perKey
     ELSE IF options.arrayFormat # "" THEN options.arrayFormat
     ELSE "repeat"

GroupEntriesMutant(sp, groups) ==
  [i \in DOMAIN sp |-> [k |-> sp[i].k, entries |-> <<sp[i].v>>]]

RECURSIVE GroupEntries(_, _)
\* entriesByKey: the values of each key in encounter order, keys in the order
\* of their first occurrence                               core.ts:94-98
GroupEntries(sp, groups) ==
  IF sp = <<>> THEN groups
  ELSE LET k == Head(sp).k
           v == Head(sp).v
       IN GroupEntries(Tail(sp),
            IF \E i \in DOMAIN groups : groups[i].k = k
            THEN [i \in DOMAIN groups |->
                    IF groups[i].k = k
                    THEN [k |-> k, entries |-> Append(groups[i].entries, v)]
                    ELSE groups[i]]
            ELSE Append(groups, [k |-> k, entries |-> <<v>>]))

ScalarRawMutant(entries) == entries[1]

\* const raw = entries[entries.length - 1]
ScalarRaw(entries) == entries[Len(entries)]

RECURSIVE FillInterim(_, _, _, _)
\* the loop over entriesByKey; a TypeError is thrown when the value
\* deserializeArray returned has no map method             core.ts:100-122
FillInterim(shape, groups, options, interim) ==
  IF groups = <<>> THEN Ok(interim)
  ELSE LET key == Head(groups).k
           entries == Head(groups).entries
       IN IF ~HasField(shape, key)
          THEN FillInterim(shape, Tail(groups), options,
                 IF ~options.stripUnknown
                 THEN Assign(interim, key,
                        IF Len(entries) > 1 THEN Strings(entries) ELSE Str(entries[1]))
                 ELSE interim)
          ELSE IF isArrayType(Field(shape, key))
          THEN LET inner == getArrayElementType(Field(shape, key))
                   ser == resolveArraySerializer(ArrayFormatOf(options, key))
                   got == deserializeArray(ser, key, entries)
               IN IF got.t # "array" THEN Throw("TypeError")
                  ELSE FillInterim(shape, Tail(groups), options,
                         Assign(interim, key,
                           Arr([i \in DOMAIN got.a |->
                                  IF options.coerceTypes
                                  THEN coerceValue(inner, JsString(got.a[i]))
                                  ELSE Str(JsString(got.a[i]))])))
          ELSE LET raw == ScalarRaw(entries)
               IN FillInterim(shape, Tail(groups), options,
                    Assign(interim, key,
                      IF options.coerceTypes
                      THEN coerceValue(Field(shape, key), raw)
                      ELSE Str(raw)))

\* parseQuery(schema, input, options), input given as a URLSearchParams
parseQueryParams(shape, sp, options) ==
  LET filled == FillInterim(shape, GroupEntries(sp, <<>>), options, <<>>)
  IN IF filled.kind = "throw" THEN filled
     ELSE SchemaParse(shape, cleanObject(filled.value, options))

ParseQueryMutant(shape, input, options) ==
  parseQueryParams(shape, ParseParams(input), options)

\* parseQuery(schema, input, options), input given as a string
parseQuery(shape, input, options) ==
  parseQueryParams(shape,
    ParseParams(IF StartsWith(input, <<"?">>) THEN Tail(input) ELSE input),
    options)

EncodeValue(value, options) ==
  IF value.t = "Date" /\ options.encodeDate THEN ToISOString(value.n)
  ELSE JsString(value)

RECURSIVE AppendAll(_, _)
AppendAll(params, pairs) ==
  IF pairs = <<>> THEN params
  ELSE AppendAll(ParamsAppend(params, Head(pairs).k, Head(pairs).v), Tail(pairs))

RECURSIVE EmitParams(_, _, _, _)
\* the loop over the cleaned filters                       core.ts:144-161
EmitParams(shape, cleaned, options, params) ==
  IF cleaned = <<>> THEN params
  ELSE LET key == Head(cleaned).k
           value == Head(cleaned).v
       IN IF ~HasField(shape, key)
          THEN EmitParams(shape, Tail(cleaned), options,
                 IF ~options.stripUnknown /\ value.t # "undefined"
                 THEN ParamsSet(params, key, JsString(value))
                 ELSE params)
          ELSE IF isArrayType(Field(shape, key)) /\ value.t = "array"
          THEN LET ser == resolveArraySerializer(ArrayFormatOf(options, key))
                   items == [i \in DOMAIN value.a |-> EncodeValue(value.a[i], options)]
               IN EmitParams(shape, Tail(cleaned), options,
                    AppendAll(params, serializeArray(ser, key, items)))
          ELSE EmitParams(shape, Tail(cleaned), options,
                 ParamsSet(params, key, EncodeValue(value, options)))

BuildQueryMutant(shape, filters, options) == EmitParams(shape, filters, options, <<>>)

\* buildQuery(schema, filters, options): the URLSearchParams it returns
buildQuery(shape, filters, options) ==
  EmitParams(shape, cleanObject(filters, options), options, <<>>)

RECURSIVE Spread(_, _)
\* { ...into, ...from }
Spread(into, from) ==
  IF from = <<>> THEN into
  ELSE Spread(Assign(into, Head(from).k, Head(from).v), Tail(from))

MergeFiltersMutant(current, next, options) ==
  IF options.dropEmpty THEN cleanObject(Spread(current, next), options)
  ELSE Spread(current, next)

\* mergeFilters(current, next, options)
mergeFilters(current, next, options) ==
  LET merged == Spread(current, next)
  IN IF options.dropEmpty
     THEN cleanObject(merged, [NoOptions EXCEPT !.dropEmpty = TRUE])
     ELSE merged

\* resetFilters(_schema, defaults = {}): { ...defaults }
resetFilters(shape, defaults) == Spread(<<>>, defaults)

Includes(s, c) == \E i \in DOMAIN s : s[i] = c
EndsWith(s, c) == s # <<>> /\ s[Len(s)] = c

SeparatorMutant(baseUrl) == IF Includes(baseUrl, "?") THEN <<"&">> ELSE <<"?">>

\* sep of buildUrl
Separator(baseUrl) ==
  IF Includes(baseUrl, "?")
  THEN (IF EndsWith(baseUrl, "?") \/ EndsWith(baseUrl, "&") THEN <<>> ELSE <<"&">>)
  ELSE <<"?">>

\* buildUrl(baseUrl, schema, filters, options)
buildUrl(baseUrl, shape, filters, options) ==
  LET qs == ParamsToString(buildQuery(shape, filters, options))
  IN IF qs = <<>> THEN baseUrl
     ELSE baseUrl \o Separator(baseUrl) \o qs

(***************************************************************************)
(* The codec's calls.  codec holds the last call: its inputs, the local    *)
(* values interim and cleaned of parseQuery, and what it returned.         *)
(***************************************************************************)
K_name == <<"n", "a", "m", "e">>
K_age == <<"a", "g", "e">>
K_active == <<"a", "c", "t", "i", "v", "e">>
K_tags == <<"t", "a", "g", "s">>
K_birthday == <<"b", "i", "r", "t", "h", "d", "a", "y">>
K_unknown == <<"u", "n", "k", "n", "o", "w", "n">>

\* the schema of tests/edge-cases.test.ts
EdgeSchema ==
  << [k |-> K_name, ty |-> ZOptional(ZString)],
     [k |-> K_age, ty |-> ZOptional(ZNumber)],
     [k |-> K_active, ty |-> ZOptional(ZBoolean)],
     [k |-> K_tags, ty |-> ZOptional(ZArray(ZString))],
     [k |-> K_birthday, ty |-> ZOptional(ZDate)] >>

\* schemas of scalar fields: required, optional, and (as in the test of nested
\* optional types) nullable optional
ScalarSchema(wrap) ==
  LET W(T) == CASE wrap = "optional" -> ZOptional(T)
                [] wrap = "nullable" -> ZNullable(ZOptional(T))
                [] OTHER -> T
  IN << [k |-> K_name, ty |-> W(ZString)],
        [k |-> K_age, ty |-> W(ZNumber)],
        [k |-> K_active, ty |-> W(ZBoolean)] >>
Wraps == {"required", "optional", "nullable"}

\* the schema of the edge-case tests, its array field tags required,
\* optional (as in the tests) or nullable optional
ArraySchema(wrap) ==
  [i \in DOMAIN EdgeSchema |->
     IF EdgeSchema[i].k = K_tags
     THEN [k |-> K_tags,
           ty |-> CASE wrap = "optional" -> ZOptional(ZArray(ZString))
                    [] wrap = "nullable" -> ZNullable(ZOptional(ZArray(ZString)))
                    [] OTHER -> ZArray(ZString)]
     ELSE EdgeSchema[i]]

SeqsUpTo(S, n) == UNION {[1..k -> S] : k \in 0..n}

\* raw values a query gives to the keys
ScalarPairs ==
  {[k |-> K_name, v |-> v] : v \in {<<"a">>, <<" ">>}}
    \cup {[k |-> K_age, v |-> v] : v \in {<<"1">>, <<>>, <<"x">>, S_Infinity}}
    \cup {[k |-> K_active, v |-> v] : v \in {S_true, <<"x">>}}
    \cup {[k |-> K_birthday, v |-> v] : v \in {ToISOString(2024), <<>>, <<"x">>}}
    \cup {[k |-> K_unknown, v |-> v] : v \in {<<"v">>, <<"w">>}}
ArrayPairs ==
  {[k |-> K_tags, v |-> v] :
     v \in {<<"a">>, <<"a", ",", "b">>, <<>>, JsonStringify(<<<<"a">>, <<"b">>>>),
            <<"5">>, <<"[", "i">>}}
    \cup {[k |-> K_age, v |-> <<"x">>]}

Flags(o) ==
  [NoOptions EXCEPT !.coerceTypes = o[1], !.dropEmpty = o[2],
                    !.trimStrings = o[3], !.stripUnknown = o[4]]
FlagOptions == {Flags(o) : o \in [1..4 -> BOOLEAN]}
\* array formats given per call and per key; "pipe" is no format of the code
FormatOptions ==
  {[NoOptions EXCEPT !.arrayFormat = f, !.coerceTypes = c, !.dropEmpty = c] :
     f \in {"", "repeat", "comma", "json", "pipe"}, c \in BOOLEAN}
    \cup {[NoOptions EXCEPT !.arrayFormat = "comma",
                            !.arrayKeyFormat = <<[k |-> K_tags, fmt |-> "json"]>>]}
    \cup {[NoOptions EXCEPT !.arrayFormat = "comma",
                            !.arrayKeyFormat = <<[k |-> K_tags, fmt |-> "pipe"]>>]}
    \cup {[NoOptions EXCEPT !.arrayFormat = "json",
                            !.arrayKeyFormat = <<[k |-> K_age, fmt |-> "comma"]>>]}
    \cup {[NoOptions EXCEPT !.arrayFormat = "comma",
                            !.arrayKeyFormat = <<[k |-> K_tags, fmt |-> ""]>>]}

Idle ==
  [op |-> "idle", shape |-> <<>>, form |-> "", filters |-> <<>>, query |-> <<>>,
   text |-> <<>>, options |-> NoOptions, interim |-> Ok(<<>>), cleaned |-> <<>>,
   ret |-> Ok(<<>>), next |-> <<>>, base |-> <<>>,
   retMarked |-> Ok(<<>>), retParams |-> Ok(<<>>)]

\* one call of parseQuery, its input a string or a URLSearchParams
ParseCall(shape, q, options, form) ==
  LET text == ParamsToString(q)
      sp == IF form = "string" THEN ParseParams(text) ELSE q
      interim == FillInterim(shape, GroupEntries(sp, <<>>), options, <<>>)
  IN [Idle EXCEPT
        !.op = "parseQuery", !.shape = shape, !.form = form, !.query = q,
        !.text = IF form = "string" THEN text ELSE <<>>,
        !.options = options,
        !.interim = interim,
        !.cleaned = IF interim.kind = "ok" THEN cleanObject(interim.value, options)
                    ELSE <<>>,
        !.ret = IF form = "string" THEN parseQuery(shape, text, options)
                ELSE parseQueryParams(shape, q, options)]

ParseScalars ==
  /\ codec.op = "idle"
  /\ \E q \in SeqsUpTo(ScalarPairs, MaxPairs), o \in FlagOptions,
        form \in {"string", "params"} :
       codec' = ParseCall(EdgeSchema, q, o, form)
  /\ UNCHANGED <<debVars, hook, heap>>

ParseArrays ==
  /\ codec.op = "idle"
  /\ \E q \in SeqsUpTo(ArrayPairs, MaxPairs), o \in FormatOptions, wrap \in Wraps :
       codec' = ParseCall(ArraySchema(wrap), q, o, "string")
  /\ UNCHANGED <<debVars, hook, heap>>

\* values of a fully populated mapping of scalar fields
StringValues == {<<>>, <<"a">>, <<" ", "a", " ">>, <<"1">>, <<"a", "&", "b", "=">>, S_true}
NumberValues == {Num(0), Num(7), Num(-12), Num(305), Infinite(1), Infinite(-1)}
BooleanValues == {Bool(TRUE), Bool(FALSE)}

\* parseQuery(schema, buildQuery(schema, m).toString(), {coerceTypes: true})
RoundTripScalars ==
  /\ codec.op = "idle"
  /\ \E wrap \in Wraps, s \in StringValues, n \in NumberValues, b \in BooleanValues,
        first \in {K_name, K_active} :
       LET shape == ScalarSchema(wrap)
           rest == <<[k |-> K_age, v |-> n]>>
           m == IF first = K_name
                THEN <<[k |-> K_name, v |-> Str(s)]>> \o rest
                       \o <<[k |-> K_active, v |-> b]>>
                ELSE <<[k |-> K_active, v |-> b]>> \o rest
                       \o <<[k |-> K_name, v |-> Str(s)]>>
           built == buildQuery(shape, m, NoOptions)
           options == [NoOptions EXCEPT !.coerceTypes = TRUE]
       IN codec' = [Idle EXCEPT
                      !.op = "roundTrip", !.shape = shape, !.form = "string",
                      !.filters = m, !.query = built,
                      !.text = ParamsToString(built), !.options = options,
                      !.ret = parseQuery(shape, ParamsToString(built), options)]
  /\ UNCHANGED <<debVars, hook, heap>>

ItemValues == {<<"a">>, <<"b">>, <<>>, <<"a", ",", "b">>, <<"\"", "]">>}
ArrayFormats == {"repeat", "comma", "json"}

\* a sequence of strings built with buildQuery and parsed back with
\* parseQuery in the same array format
RoundTripArray ==
  /\ codec.op = "idle"
  /\ \E items \in SeqsUpTo(ItemValues, MaxItems), fmt \in ArrayFormats,
        form \in {"string", "params"} :
       LET m == <<[k |-> K_tags, v |-> Strings(items)]>>
           options == [NoOptions EXCEPT !.arrayFormat = fmt]
           built == buildQuery(EdgeSchema, m, options)
       IN codec' = [Idle EXCEPT
                      !.op = "roundTripArray", !.shape = EdgeSchema, !.form = form,
                      !.filters = m, !.query = built,
                      !.text = IF form = "string" THEN ParamsToString(built) ELSE <<>>,
                      !.options = options,
                      !.ret = IF form = "string"
                              THEN parseQuery(EdgeSchema, ParamsToString(built), options)
                              ELSE parseQueryParams(EdgeSchema, built, options)]
  /\ UNCHANGED <<debVars, hook, heap>>

\* entries of the filter mappings given to buildQuery
BuildEntries ==
  {[k |-> K_name, v |-> v] : v \in {Undef, Null, Str(<<" ">>), Str(<<" ", "a", " ">>)}}
    \cup {[k |-> K_active, v |-> Bool(FALSE)]}
    \cup {[k |-> K_unknown, v |-> Str(<<"v">>)]}
    \cup {[k |-> K_tags, v |-> Strings(items)] :
            items \in SeqsUpTo({<<"a">>, <<"b", " ", "c">>}, MaxItems)}
DistinctKeys(m) == \A i, j \in DOMAIN m : m[i].k = m[j].k => i = j
BuildFilters == {m \in SeqsUpTo(BuildEntries, MaxPairs) : DistinctKeys(m)}
\* the array formats of a call: [arrayFormat, arrayKeyFormat]
FormatChoices ==
  {<<f, <<>> >> : f \in {"", "repeat", "comma", "json", "pipe"}}
    \cup {<<"comma", <<[k |-> K_tags, fmt |-> f]>> >> : f \in {"json", "pipe", ""}}
    \cup {<<"json", <<[k |-> K_age, fmt |-> "comma"]>> >>}
BuildOptions ==
  {[NoOptions EXCEPT !.arrayFormat = c[1], !.arrayKeyFormat = c[2],
                     !.dropEmpty = d, !.trimStrings = t] :
     c \in FormatChoices, d \in BOOLEAN, t \in BOOLEAN}

\* one call of buildQuery; cleaned is its local value, query what it returns
\* and text the string form of that
Build ==
  /\ codec.op = "idle"
  /\ \E m \in BuildFilters, o \in BuildOptions :
       LET built == buildQuery(EdgeSchema, m, o)
       IN codec' = [Idle EXCEPT
                      !.op = "buildQuery", !.shape = EdgeSchema, !.filters = m,
                      !.options = o, !.cleaned = cleanObject(m, o),
                      !.query = built, !.text = ParamsToString(built)]
  /\ UNCHANGED <<debVars, hook, heap>>

\* values of the mappings given to cleanObject and mergeFilters
CleanValues ==
  {Undef, Null, Str(<<>>), Str(<<" ">>), Str(<<" ", "a", " ">>), Bool(FALSE), Num(0),
   Arr(<<>>)}
CleanMaps ==
  {m \in SeqsUpTo({[k |-> k, v |-> v] : k \in {K_name, K_age, K_tags}, v \in CleanValues},
                  MaxPairs) : DistinctKeys(m)}
CleanOptions ==
  {[NoOptions EXCEPT !.dropEmpty = d, !.trimStrings = t] : d \in BOOLEAN, t \in BOOLEAN}

\* cleanObject(m, opts)
Clean ==
  /\ codec.op = "idle"
  /\ \E m \in CleanMaps, o \in CleanOptions :
       codec' = [Idle EXCEPT !.op = "cleanObject", !.filters = m, !.options = o,
                             !.ret = Ok(cleanObject(m, o))]
  /\ UNCHANGED <<debVars, hook, heap>>

\* cleanObject applied to what cleanObject returned, with the same options
CleanAgain ==
  /\ codec.op = "cleanObject"
  /\ codec' = [codec EXCEPT !.op = "cleanObjectAgain", !.filters = codec.ret.value,
                            !.ret = Ok(cleanObject(codec.ret.value, codec.options))]
  /\ UNCHANGED <<debVars, hook, heap>>

MergeValues == {Undef, Null, Str(<<" ">>), Str(<<" ", "a", " ">>), Num(0)}
MergeMaps ==
  {m \in SeqsUpTo({[k |-> k, v |-> v] : k \in {K_name, K_age}, v \in MergeValues}, MaxPairs) :
     DistinctKeys(m)}

\* mergeFilters(current, next, options)
Merge ==
  /\ codec.op = "idle"
  /\ \E current \in MergeMaps, next \in MergeMaps, o \in CleanOptions :
       codec' = [Idle EXCEPT !.op = "mergeFilters", !.filters = current, !.next = next,
                             !.options = o, !.ret = Ok(mergeFilters(current, next, o))]
  /\ UNCHANGED <<debVars, hook, heap>>

BaseUrls ==
  {<<>>, <<"/", "a">>, <<"/", "a", "?">>, <<"/", "a", "?", "x", "=", "1">>,
   <<"/", "a", "?", "x", "=", "1", "&">>, <<"/", "a", "&">>, <<"/", "?", "a", "/">>}
UrlFilters == {m \in BuildFilters : Len(m) <= 1}
UrlOptions == {NoOptions, [NoOptions EXCEPT !.dropEmpty = TRUE]}

\* buildUrl(baseUrl, schema, filters, options); query is the value of
\* buildQuery, text the URL returned
BuildUrl ==
  /\ codec.op = "idle"
  /\ \E baseUrl \in BaseUrls, m \in UrlFilters, o \in UrlOptions :
       codec' = [Idle EXCEPT !.op = "buildUrl", !.shape = EdgeSchema, !.base = baseUrl,
                             !.filters = m, !.options = o,
                             !.query = buildQuery(EdgeSchema, m, o),
                             !.text = buildUrl(baseUrl, EdgeSchema, m, o)]
  /\ UNCHANGED <<debVars, hook, heap>>

K_flags == <<"f", "l", "a", "g", "s">>

\* a schema with a boolean field, an array of booleans and an array of
\* strings, each required, optional or nullable optional
BoolSchema(wrap) ==
  LET W(T) == CASE wrap = "optional" -> ZOptional(T)
                [] wrap = "nullable" -> ZNullable(ZOptional(T))
                [] OTHER -> T
  IN << [k |-> K_active, ty |-> W(ZBoolean)],
        [k |-> K_flags, ty |-> W(ZArray(ZBoolean))],
        [k |-> K_tags, ty |-> W(ZArray(ZString))] >>

\* raw values given to the boolean field
BoolRaws ==
  {<<"1">>, <<"0">>, S_true, S_false, S_yes, S_no, <<"T", "R", "U", "E">>,
   <<"Y", "e", "s">>, <<"n", "O">>, <<"2">>, <<" ", "t", "r", "u", "e">>, <<>>}
\* raw entries given to the array fields
ElementPairs ==
  {[k |-> K_flags, v |-> v] : v \in {S_true, <<"N", "O">>, <<"x", ",", "0">>}}
    \cup {[k |-> K_tags, v |-> v] : v \in {<<" ", "a", " ">>, <<>>}}
BoolOptions ==
  {[NoOptions EXCEPT !.coerceTypes = o[1], !.trimStrings = o[2], !.dropEmpty = o[3],
                     !.arrayFormat = f] :
     o \in {<<FALSE, FALSE, FALSE>>, <<TRUE, FALSE, FALSE>>, <<TRUE, TRUE, FALSE>>,
            <<TRUE, TRUE, TRUE>>},
     f \in {"", "comma"}}

\* parseQuery of a query giving the boolean field at most one raw value and
\* the array fields up to MaxItems entries
ParseBooleans ==
  /\ codec.op = "idle"
  /\ \E wrap \in Wraps, o \in BoolOptions,
        a \in {<<>>} \cup {<<[k |-> K_active, v |-> r]>> : r \in BoolRaws},
        es \in SeqsUpTo(ElementPairs, MaxItems) :
       codec' = ParseCall(BoolSchema(wrap), a \o es, o, "params")
  /\ UNCHANGED <<debVars, hook, heap>>

FormPairs ==
  {[k |-> K_name, v |-> <<"a", " ", "&">>], [k |-> K_age, v |-> <<"1">>],
   [k |-> K_age, v |-> <<"x">>], [k |-> K_tags, v |-> <<"a">>]}
Marks == {<<>>, <<"?">>, <<"?", "?">>}

\* parseQuery of a string, of the same string behind one more "?", and of
\* the URLSearchParams the string was made from
ParseForms ==
  /\ codec.op = "idle"
  /\ \E q \in SeqsUpTo(FormPairs, MaxPairs), lead \in Marks, c \in BOOLEAN :
       LET s == lead \o ParamsToString(q)
           o == [NoOptions EXCEPT !.coerceTypes = c]
       IN codec' = [Idle EXCEPT
                      !.op = "parseForms", !.shape = EdgeSchema, !.form = "string",
                      !.query = q, !.text = s, !.options = o,
                      !.ret = parseQuery(EdgeSchema, s, o),
                      !.retMarked = parseQuery(EdgeSchema, <<"?">> \o s, o),
                      !.retParams = parseQueryParams(EdgeSchema, q, o)]
  /\ UNCHANGED <<debVars, hook, heap>>

UnknownValues ==
  {Undef, Null, Str(<<"v">>), Str(<<" ", "v", " ">>), Str(<<>>), Num(7), Bool(TRUE),
   Strings(<< <<"a">>, <<"b">> >>)}
UnknownOptions ==
  {[NoOptions EXCEPT !.stripUnknown = o[1], !.dropEmpty = o[2], !.trimStrings = o[3]] :
     o \in [1..3 -> BOOLEAN]}

\* buildQuery of filters holding a key the schema does not declare
BuildUnknown ==
  /\ codec.op = "idle"
  /\ \E v \in UnknownValues, o \in UnknownOptions, place \in 0..2 :
       LET u == <<[k |-> K_unknown, v |-> v]>>
           n == <<[k |-> K_name, v |-> Str(<<"a">>)]>>
           m == CASE place = 0 -> u [] place = 1 -> n \o u [] OTHER -> u \o n
           built == buildQuery(EdgeSchema, m, o)
       IN codec' = [Idle EXCEPT
                      !.op = "buildQuery", !.shape = EdgeSchema, !.filters = m,
                      !.options = o, !.cleaned = cleanObject(m, o),
                      !.query = built, !.text = ParamsToString(built)]
  /\ UNCHANGED <<debVars, hook, heap>>

(***************************************************************************)
(* Part III - the objects the codec reads and builds                       *)
(*                                                                         *)
(* heap.cells holds every object by its address: the schema, the mappings  *)
(* and the query multimap of the caller, and each object a call builds.    *)
(* heap.calls is the record of the calls made: the addresses and contents  *)
(* of the arguments, and the address and content of what was returned.     *)
(***************************************************************************)
MaxHeapCalls == 2   \* calls made on one heap

Cell(kind, v) == [kind |-> kind, v |-> v]
\* a new object, array or URLSearchParams: the next free address
HeapNew(cells, kind, v) ==
  [cells |-> Append(cells, Cell(kind, v)), ret |-> Len(cells) + 1]

\* a cleanObject that trims and deletes in the object it was given
HeapCleanObjectMutant(cells, r, o) ==
  [cells |-> [cells EXCEPT ![r].v = cleanObject(@, o)], ret |-> r]

\* cleanObject: `const out = {}`, filled and returned       core.ts:16-27
HeapCleanObject(cells, r, o) ==
  HeapNew(cells, "object", cleanObject(cells[r].v, o))

\* mergeFilters: `{ ...current, ...next }`, then cleanObject  core.ts:199-200
HeapMergeFilters(cells, current, next, options) ==
  LET merged == HeapNew(cells, "object", Spread(cells[current].v, cells[next].v))
  IN IF options.dropEmpty
     THEN HeapCleanObject(merged.cells, merged.ret, [NoOptions EXCEPT !.dropEmpty = TRUE])
     ELSE merged

\* resetFilters: `{ ...defaults }`; defaults = 0 is a call without defaults
HeapResetFilters(cells, shape, defaults) ==
  HeapNew(cells, "object",
          resetFilters(cells[shape].v, IF defaults = 0 THEN <<>> ELSE cells[defaults].v))

\* buildQuery: `new URLSearchParams()`, cleanObject(filters), then the loop
\* sets and appends on the new params                       core.ts:140-163
HeapBuildQuery(cells, shape, filters, options) ==
  LET params == HeapNew(cells, "params", <<>>)
      cleaned == HeapCleanObject(params.cells, filters, options)
  IN [cells |-> [cleaned.cells EXCEPT ![params.ret].v =
                   EmitParams(cleaned.cells[shape].v, cleaned.cells[cleaned.ret].v,
                              options, <<>>)],
      ret |-> params.ret]

\* parseQuery of a URLSearchParams: sp is the input itself, read through
\* entries(); interim, cleaned and the value of schema.parse are new objects
\* (ret = 0: the call threw)                                core.ts:90-125
HeapParseQuery(cells, shape, input, options) ==
  LET filled == FillInterim(cells[shape].v, GroupEntries(cells[input].v, <<>>),
                            options, <<>>)
  IN IF filled.kind = "throw" THEN [cells |-> cells, ret |-> 0]
     ELSE LET interim == HeapNew(cells, "object", filled.value)
              cleaned == HeapCleanObject(interim.cells, interim.ret, options)
              parsed == SchemaParse(cleaned.cells[shape].v, cleaned.cells[cleaned.ret].v)
          IN IF parsed.kind = "throw" THEN [cells |-> cleaned.cells, ret |-> 0]
             ELSE HeapNew(cleaned.cells, "object", parsed.value)

HeapIdle == [cells |-> <<>>, calls |-> <<>>]

\* the caller's mappings and query multimap
HeapMaps ==
  {<<[k |-> K_name, v |-> Str(<<" ", "a", " ">>)], [k |-> K_age, v |-> Null]>>,
   <<[k |-> K_tags, v |-> Strings(<< <<"x">>, <<>> >>)], [k |-> K_name, v |-> Str(<<>>)]>>}
HeapDefaults == {<<[k |-> K_name, v |-> Str(<<"d">>)], [k |-> K_age, v |-> Undef]>>}
HeapQueries ==
  {<<[k |-> K_name, v |-> <<" ", "a">>], [k |-> K_tags, v |-> <<"x">>],
     [k |-> K_tags, v |-> <<>>]>>,
   <<[k |-> K_age, v |-> <<"x">>]>>}
HeapOptions ==
  {NoOptions,
   [NoOptions EXCEPT !.dropEmpty = TRUE, !.trimStrings = TRUE, !.coerceTypes = TRUE]}

\* addresses: 1 the schema, 2 a mapping, 3 the defaults, 4 the query multimap
A_schema == 1
Objects == {r \in DOMAIN heap.cells : heap.cells[r].kind = "object"}
Queries == {r \in DOMAIN heap.cells : heap.cells[r].kind = "params"}

\* the contents of the arguments as the call finds them
Contents(args) == [i \in DOMAIN args |-> IF args[i] = 0 THEN Cell("none", <<>>)
                                         ELSE heap.cells[args[i]]]
\* one call: the heap after it and its record
Called(op, args, options, done) ==
  /\ Len(heap.calls) < MaxHeapCalls
  /\ heap' = [cells |-> done.cells,
              calls |-> Append(heap.calls,
                          [op |-> op, args |-> args, in |-> Contents(args),
                           options |-> options, before |-> Len(heap.cells),
                           ret |-> done.ret,
                           out |-> IF done.ret = 0 THEN Cell("thrown", <<>>)
                                   ELSE done.cells[done.ret]])]
  /\ UNCHANGED <<debVars, codec, hook>>

CallCleanObject ==
  \E r \in Objects, o \in HeapOptions :
    Called("cleanObject", <<r>>, o, HeapCleanObject(heap.cells, r, o))

CallMergeFilters ==
  \E c \in Objects, n \in Objects, d \in BOOLEAN :
    LET o == [NoOptions EXCEPT !.dropEmpty = d]
    IN Called("mergeFilters", <<c, n>>, o, HeapMergeFilters(heap.cells, c, n, o))

CallResetFilters ==
  \E d \in Objects \cup {0} :
    Called("resetFilters", <<A_schema, d>>, NoOptions,
           HeapResetFilters(heap.cells, A_schema, d))

CallBuildQuery ==
  \E f \in Objects, o \in HeapOptions :
    Called("buildQuery", <<A_schema, f>>, o, HeapBuildQuery(heap.cells, A_schema, f, o))

CallParseQuery ==
  \E q \in Queries, o \in HeapOptions :
    Called("parseQuery", <<A_schema, q>>, o, HeapParseQuery(heap.cells, A_schema, q, o))

(***************************************************************************)
(* Part IV - the hook useFiltersGeneric (src/src/react.ts)                 *)
(*                                                                         *)
(* hook is one component instance: the options it was given, what its last *)
(* render read and returned, the cell of useMemo, and the URLs handed to   *)
(* pushUrl so far.                                                          *)
(***************************************************************************)
MaxPushes == 2      \* calls of setFilters()/reset() on one component

OptionNames == {"stripUnknown", "trimStrings", "dropEmpty", "coerceTypes",
                "encodeDate", "arrayFormat", "arrayKeyFormat"}
\* an options object that states only some of the options
Given(names, o) == [names |-> names, o |-> o]
NotGiven == Given({}, NoOptions)

\* { ...defaults, ...given }
SpreadOptions(defaults, given) ==
  [f \in OptionNames |-> IF f \in given.names THEN given.o[f] ELSE defaults[f]]

\* the options literal of the useMemo callback
HookParseDefaults ==
  [NoOptions EXCEPT !.coerceTypes = TRUE, !.dropEmpty = TRUE,
                    !.trimStrings = TRUE, !.stripUnknown = TRUE]
\* the options literal of setFilters and reset
HookBuildDefaults ==
  [NoOptions EXCEPT !.encodeDate = TRUE, !.dropEmpty = TRUE,
                    !.trimStrings = TRUE, !.stripUnknown = TRUE]

\* opts.basePath || (typeof window !== "undefined" ? window.location.pathname : "/")
BasePathOf(given, window) ==
  IF given # <<>> THEN given
  ELSE IF window.present THEN window.pathname ELSE <<"/">>

\* the dependency list of useMemo, the schema being the same object throughout
MemoDeps(search, parse) ==
  [search |-> search,
   arrayFormat |-> IF "arrayFormat" \in parse.names THEN parse.o.arrayFormat ELSE ""]

HookIdle ==
  [mounted |-> FALSE, basePath |-> <<>>, window |-> [present |-> FALSE, pathname |-> <<>>],
   build |-> NotGiven, parse |-> NotGiven, search |-> <<>>,
   memo |-> [set |-> FALSE, deps |-> MemoDeps(<<>>, NotGiven), value |-> Ok(<<>>)],
   filters |-> Ok(<<>>), pushed |-> <<>>, op |-> "none", arg |-> <<>>]

\* what getSearch() returns
Searches ==
  {<<>>,
   <<"?", "n", "a", "m", "e", "=", "+", "a", "+">>,
   <<"?", "t", "a", "g", "s", "=", "a", "%", "2", "C", "b">>,
   <<"?", "a", "g", "e", "=", "x">>}
\* opts.parse
ParseGiven ==
  {NotGiven,
   Given({"trimStrings"}, [NoOptions EXCEPT !.trimStrings = FALSE]),
   Given({"arrayFormat"}, [NoOptions EXCEPT !.arrayFormat = "comma"])}
NoWindow == [present |-> FALSE, pathname |-> <<>>]
Window == [present |-> TRUE, pathname |-> <<"/", "p">>]
\* the component's opts (basePath, build) and whether it runs in a browser
Mounts ==
  {[basePath |-> <<>>, build |-> NotGiven, window |-> Window],
   [basePath |-> <<>>, build |-> NotGiven, window |-> NoWindow],
   [basePath |-> <<"/", "a", "?", "x", "=", "1">>,
    build |-> Given({"arrayFormat"}, [NoOptions EXCEPT !.arrayFormat = "comma"]),
    window |-> Window]}
\* the argument of setFilters
NextFilters ==
  {<<[k |-> K_name, v |-> Str(<<" ", "b", " ">>)]>>,
   <<[k |-> K_name, v |-> Undef], [k |-> K_tags, v |-> Strings(<< <<"x">>, <<"y">> >>)]>>}
\* the argument of reset, <<>> also standing for no argument
DefaultFilters == {<<>>, <<[k |-> K_name, v |-> Str(<<"d">>)]>>}

\* one render: the body of useFiltersGeneric                react.ts:18-32
Render(s, p) ==
  /\ hook.mounted
  /\ LET deps == MemoDeps(s, p)
         hit == hook.memo.set /\ hook.memo.deps = deps
         value == IF hit THEN hook.memo.value
                  ELSE parseQuery(EdgeSchema, s, SpreadOptions(HookParseDefaults, p))
     IN hook' = [hook EXCEPT
                   !.search = s, !.parse = p, !.filters = value,
                   !.memo = IF value.kind = "ok"
                            THEN [set |-> TRUE, deps |-> deps, value |-> value]
                            ELSE @,
                   !.op = "render", !.arg = <<>>]
  /\ UNCHANGED <<debVars, codec, heap>>

\* setFilters(next), the callback of the last render       react.ts:34-47
SetFilters(next) ==
  /\ hook.op # "none" /\ hook.filters.kind = "ok"
  /\ Len(hook.pushed) < MaxPushes
  /\ LET merged == mergeFilters(hook.filters.value, next,
                                [NoOptions EXCEPT !.dropEmpty = TRUE])
         url == buildUrl(BasePathOf(hook.basePath, hook.window), EdgeSchema, merged,
                         SpreadOptions(HookBuildDefaults, hook.build))
     IN hook' = [hook EXCEPT !.pushed = Append(@, url), !.op = "setFilters",
                             !.arg = next]
  /\ UNCHANGED <<debVars, codec, heap>>

\* reset(defaults), the callback of the last render        react.ts:49-62
Reset(defaults) ==
  /\ hook.op # "none" /\ hook.filters.kind = "ok"
  /\ Len(hook.pushed) < MaxPushes
  /\ LET value == resetFilters(EdgeSchema, defaults)
         url == buildUrl(BasePathOf(hook.basePath, hook.window), EdgeSchema, value,
                         SpreadOptions(HookBuildDefaults, hook.build))
     IN hook' = [hook EXCEPT !.pushed = Append(@, url), !.op = "reset",
                             !.arg = defaults]
  /\ UNCHANGED <<debVars, codec, heap>>

HookInit ==
  /\ DebInit
  /\ ~waitArg.given
  /\ codec = Idle
  /\ heap = HeapIdle
  /\ \E m \in Mounts :
       hook = [HookIdle EXCEPT !.mounted = TRUE, !.basePath = m.basePath,
                               !.window = m.window, !.build = m.build]

HookNext ==
  \/ \E s \in Searches, p \in ParseGiven : Render(s, p)
  \/ \E next \in NextFilters : SetFilters(next)
  \/ \E defaults \in DefaultFilters : Reset(defaults)

HookSpec == HookInit /\ [][HookNext]_vars

HeapInit ==
  /\ DebInit
  /\ ~waitArg.given
  /\ codec = Idle
  /\ hook = HookIdle
  /\ \E m \in HeapMaps, d \in HeapDefaults, q \in HeapQueries :
       heap = [cells |-> <<Cell("schema", EdgeSchema), Cell("object", m),
                           Cell("object", d), Cell("params", q)>>,
               calls |-> <<>>]

HeapNext ==
  \/ CallCleanObject
  \/ CallMergeFilters
  \/ CallResetFilters
  \/ CallBuildQuery
  \/ CallParseQuery

HeapSpec == HeapInit /\ [][HeapNext]_vars

DebNext ==
  \/ \E a \in Args : Invoke(a)
  \/ \E t \in timers : TimerFire(t)
  \/ Cancel
  \/ \E a \in Args : Flush(a)
  \/ Tick

Init == DebInit /\ codec = Idle /\ hook = HookIdle /\ heap = HeapIdle

Spec == Init /\ [][DebNext]_vars

CodecInit ==
  /\ DebInit
  /\ ~waitArg.given
  /\ codec = Idle
  /\ hook = HookIdle
  /\ heap = HeapIdle

CodecNext ==
  \/ ParseScalars
  \/ ParseArrays
  \/ RoundTripScalars
  \/ RoundTripArray
  \/ Build

CodecSpec == CodecInit /\ [][CodecNext]_vars

UtilNext ==
  \/ Clean
  \/ CleanAgain
  \/ Merge
  \/ BuildUrl

UtilSpec == CodecInit /\ [][UtilNext]_vars

DetailNext ==
  \/ ParseBooleans
  \/ ParseForms
  \/ BuildUnknown

DetailSpec == CodecInit /\ [][DetailNext]_vars

(***************************************************************************)
(* Claims about debounce                                                   *)
(***************************************************************************)
TimerExecs == {i \in DOMAIN execs : execs[i].by = "timer"}
Members(e) == {e.resolvers[j] : j \in DOMAIN e.resolvers}
SettledAs(c, outcome) ==
  /\ promises[c].outcome = outcome
  /\ promises[c].state = IF outcome.kind = "return" THEN "fulfilled" ELSE "rejected"

\* C1: a burst of n >= 1 invocations (each made while the previous one's timer
\* is pending, no cancel or flush in between) leads to exactly one execution
\* of the underlying function when the timer fires, with the arguments of the
\* last invocation of the burst, and every promise of the burst is settled
\* with the outcome of that one execution (resolved with its result).
C1_BurstRunsOnceWithLastArgs ==
  \A i \in TimerExecs :
    LET e == execs[i] IN
      /\ e.resolvers # <<>>
      /\ \A j \in DOMAIN e.resolvers : e.resolvers[j] = e.resolvers[1] + j - 1
      /\ e.call = Last(e.resolvers)
      /\ e.args = promises[e.call].args
      /\ e.outcome = func(promises[Last(e.resolvers)].args)
      /\ \A c \in Members(e) : SettledAs(c, e.outcome) /\ promises[c].by = "timer"
      /\ \A c \in 1..e.call : promises[c].state # "pending"
      /\ \A k \in TimerExecs \ {i} : Members(execs[k]) \cap Members(e) = {}

C1_Witness ==
  \E i \in TimerExecs :
    /\ Len(execs[i].resolvers) >= 2
    /\ execs[i].outcome.kind = "return"
    /\ promises[execs[i].resolvers[1]].args # execs[i].args
    /\ \A c \in Members(execs[i]) : promises[c].state = "fulfilled"

\* C2: cancel() while invocations are pending rejects every pending caller
\* with the error "Debounced function was cancelled" and clears the timer, and
\* the underlying function is never executed for those invocations afterwards.
C2_CancelRejectsAndClears ==
  /\ lastOp.op = "cancel" =>
       /\ timeoutId = 0
       /\ timers = {}
       /\ pendingResolvers = <<>>
       /\ \A c \in DOMAIN promises : promises[c].state # "pending"
  /\ \A c \in DOMAIN promises :
       promises[c].by = "cancel" =>
         /\ promises[c].state = "rejected"
         /\ promises[c].outcome.msg = "Debounced function was cancelled"
  /\ \A i \in TimerExecs :
       /\ promises[execs[i].call].by # "cancel"
       /\ \A c \in Members(execs[i]) : promises[c].by # "cancel"

C2_Witness ==
  /\ \E c \in DOMAIN promises : promises[c].by = "cancel"
  /\ sinceInvoke >= wait
  /\ execs = <<>>

\* C3: flush(args) rejects every pending caller with the cancellation error,
\* clears the pending timer, executes the underlying function exactly once,
\* synchronously, with flush's own arguments, and returns that outcome itself
\* (no promise is made); the cancelled timer never executes afterwards.
C3_FlushState ==
  /\ lastOp.op = "flush" =>
       /\ timeoutId = 0
       /\ timers = {}
       /\ pendingResolvers = <<>>
       /\ \A c \in DOMAIN promises : promises[c].state # "pending"
       /\ execs # <<>>
       /\ Last(execs).by = "flush"
       /\ Last(execs).args = lastOp.args
       /\ lastOp.ret = func(lastOp.args)
       /\ lastOp.ret = Last(execs).outcome
  /\ \A c \in DOMAIN promises :
       promises[c].by = "flush" => SettledAs(c, CancelError)
  /\ \A i \in TimerExecs : promises[execs[i].call].by # "flush"

C3_FlushStep ==
  (directCalls' = directCalls + 1 /\ lastOp'.op = "flush") =>
     /\ Len(execs') = Len(execs) + 1
     /\ Len(promises') = Len(promises)
     /\ \A c \in DOMAIN promises :
          promises[c].state = "pending" => promises'[c].by = "flush"

C3_FlushRunsOwnArgs == [](C3_FlushState) /\ [][C3_FlushStep]_vars

C3_Witness ==
  /\ lastOp.op = "flush"
  /\ lastOp.ret.kind = "return"
  /\ \E c \in DOMAIN promises :
       promises[c].by = "flush" /\ promises[c].args # lastOp.args

\* C4: when the timer fires and the underlying function throws, every caller
\* accumulated in that round is rejected with that same error; none is
\* resolved.
C4_ThrowRejectsRound ==
  \A i \in TimerExecs :
    execs[i].outcome.kind = "throw" =>
      \A c \in Members(execs[i]) :
        /\ promises[c].state = "rejected"
        /\ promises[c].outcome = execs[i].outcome

C4_Witness ==
  \E i \in TimerExecs :
    /\ execs[i].outcome.kind = "throw"
    /\ Len(execs[i].resolvers) >= 2

\* C5 as stated: a caller whose invocation is superseded by a later one before
\* the timer fires receives a cancellation failure, as does a caller whose
\* invocation is explicitly cancelled.
C5_SupersededIsCancelled ==
  \A c \in DOMAIN promises :
    /\ (promises[c].superseded /\ promises[c].state # "pending")
         => SettledAs(c, CancelError)
    /\ promises[c].by = "cancel" => SettledAs(c, CancelError)

\* C5 amended: a caller whose invocation is superseded by a later one before
\* the timer fires is not failed for that: it stays pending and shares the
\* outcome of the invocation that superseded it; only a caller whose pending
\* invocation is explicitly cancelled (cancel() or flush()) receives the
\* cancellation failure.
C5_SupersededSharesOutcome ==
  \A c \in DOMAIN promises :
    /\ promises[c].superseded =>
         /\ c < Len(promises)
         /\ promises[c].state = promises[c + 1].state
         /\ promises[c].outcome = promises[c + 1].outcome
         /\ promises[c].by = promises[c + 1].by
    /\ promises[c].by \in {"cancel", "flush"} => SettledAs(c, CancelError)
    /\ promises[c].outcome = CancelError => promises[c].by \in {"cancel", "flush"}
    /\ promises[c].by \in {"none", "timer", "cancel", "flush"}

C5_Witness ==
  \E c \in DOMAIN promises :
    /\ promises[c].superseded
    /\ promises[c].state = "fulfilled"
    /\ \E d \in DOMAIN promises : promises[d].by = "cancel"

HasKey(q, k) == \E i \in DOMAIN q : q[i].k = k
\* the raw value parseQuery takes for a scalar key: its last occurrence
LastRaw(q, k) == q[CHOOSE i \in DOMAIN q : q[i].k = k /\ \A j \in DOMAIN q : q[j].k = k => j <= i].v
RoundTripped == codec.ret.kind = "ok" /\ SameObject(codec.ret.value, codec.filters)
FiniteNumbers(m) == \A i \in DOMAIN m : m[i].v.t # "infinity"

\* C7 as stated: a fully populated mapping of scalar string, number and
\* boolean fields, built with buildQuery and parsed back with coerceTypes
\* set, comes back equal, whatever number it holds.
C7_RoundTripAnyNumber == codec.op = "roundTrip" => RoundTripped

\* C7 amended: a fully populated mapping of scalar string, finite number and
\* boolean fields, built with buildQuery and parsed back with coerceTypes
\* set, comes back equal.
C7_RoundTripFinite ==
  (codec.op = "roundTrip" /\ FiniteNumbers(codec.filters)) => RoundTripped

C7_Witness ==
  /\ codec.op = "roundTrip"
  /\ Get(codec.filters, K_name) = Str(<<"a", "&", "b", "=">>)
  /\ Get(codec.filters, K_age) = Num(-12)
  /\ Get(codec.filters, K_active) = Bool(FALSE)
  /\ codec.shape = ScalarSchema("nullable")
  /\ RoundTripped

Items(m) == [i \in DOMAIN Get(m, K_tags).a |-> Get(m, K_tags).a[i].s]
TagsBack ==
  /\ codec.ret.kind = "ok"
  /\ Has(codec.ret.value, K_tags)
  /\ Get(codec.ret.value, K_tags) = Get(codec.filters, K_tags)
\* the sequences a format brings back unchanged
Survives(fmt, items) ==
  CASE fmt = "json" -> TRUE
    [] fmt = "repeat" -> items # <<>>
    [] fmt = "comma" ->
         /\ \A i \in DOMAIN items : IndexOf(items[i], ",") = 0
         /\ items # << <<>> >>

\* C8 as stated: in each of the three array formats, every sequence of
\* strings given for an array field comes back as the same sequence.
C8_ArrayRoundTripAll == codec.op = "roundTripArray" => TagsBack

\* C8 amended: the same sequence comes back for every sequence in the json
\* format, for every non-empty sequence in the repeat format, and in the
\* comma format for every sequence whose items hold no comma, other than
\* the sequence of one empty string.
C8_ArrayRoundTripSurvivors ==
  (codec.op = "roundTripArray"
     /\ Survives(codec.options.arrayFormat, Items(codec.filters))) => TagsBack

C8_Witness ==
  /\ codec.op = "roundTripArray"
  /\ codec.options.arrayFormat = "comma"
  /\ Items(codec.filters) = << <<"a">>, <<"b">> >>
  /\ codec.query = <<[k |-> K_tags, v |-> <<"a", ",", "b">>]>>
  /\ TagsBack

\* C9: whatever the input, parseQuery either returns a mapping or fails with
\* the schema's validation error; no other error reaches the caller.
C9_OnlyValidationError ==
  codec.op = "parseQuery" => (codec.ret.kind = "ok" \/ codec.ret.error = "ZodError")

NumberKeys(shape) ==
  {shape[i].k : i \in {j \in DOMAIN shape : getInnerType(shape[j].ty).typeName = "ZodNumber"}}
DateKeys(shape) ==
  {shape[i].k : i \in {j \in DOMAIN shape : getInnerType(shape[j].ty).typeName = "ZodDate"}}
\* a call of parseQuery with coerceTypes whose query gives key k a raw value
Coerced(k) ==
  /\ codec.op = "parseQuery"
  /\ codec.options.coerceTypes
  /\ HasKey(codec.query, k)
Unparsable(k) ==
  \/ /\ k \in NumberKeys(codec.shape)
     /\ ~IsFinite(StringToNumber(LastRaw(codec.query, k)))
  \/ /\ k \in DateKeys(codec.shape)
     /\ DateParse(LastRaw(codec.query, k)).t = "InvalidDate"
LeftRaw(k) ==
  codec.interim.kind = "ok" =>
    Get(codec.interim.value, k) = Str(LastRaw(codec.query, k))
Dropped(k) == codec.options.dropEmpty /\ Trim(LastRaw(codec.query, k)) = <<>>

\* C10 as stated: with coerceTypes, a number or date field whose raw value
\* does not parse is left as the raw string and parseQuery fails with the
\* schema's validation error.
C10_UnparsableFailsValidation ==
  \A k \in NumberKeys(EdgeSchema) \cup DateKeys(EdgeSchema) :
    (Coerced(k) /\ Unparsable(k)) =>
      /\ LeftRaw(k)
      /\ codec.ret = Throw("ZodError")

\* C10 amended: with coerceTypes, a number or date field whose raw value
\* does not parse is left as the raw string by coercion; unless dropEmpty is
\* set and the raw value is blank, parseQuery then returns no mapping, and
\* fails with the schema's validation error whenever the interim mapping
\* was completed; a blank raw value under dropEmpty (a date field's only) is
\* dropped by cleaning and never fails validation of an optional field.
C10_UnparsableReachesValidation ==
  \A k \in NumberKeys(EdgeSchema) \cup DateKeys(EdgeSchema) :
    (Coerced(k) /\ Unparsable(k)) =>
      /\ LeftRaw(k)
      /\ ~Dropped(k) =>
           /\ codec.ret.kind = "throw"
           /\ codec.interim.kind = "ok" => codec.ret.error = "ZodError"
      /\ Dropped(k) =>
           /\ k \in DateKeys(EdgeSchema)
           /\ codec.interim.kind = "ok" => ~Has(codec.cleaned, k)

C10_Witness ==
  /\ Coerced(K_age) /\ Unparsable(K_age)
  /\ Coerced(K_birthday) /\ Unparsable(K_birthday)
  /\ LastRaw(codec.query, K_age) = S_Infinity
  /\ LastRaw(codec.query, K_birthday) = <<"x">>
  /\ codec.options.dropEmpty
  /\ codec.ret = Throw("ZodError")

\* the raw values a query gives to key k, in order
RawEntries(q, k) ==
  LET hits == SelectSeq(q, LAMBDA p : p.k = k)
  IN [i \in DOMAIN hits |-> hits[i].v]
\* the format the options give for a key: the per-key format when given and
\* not the empty string, otherwise the call's format, otherwise repeat
FormatGiven(options, k) ==
  LET perKey == {e \in {options.arrayKeyFormat[i] : i \in DOMAIN options.arrayKeyFormat} :
                   e.k = k /\ e.fmt # ""}
  IN IF perKey # {} THEN (CHOOSE e \in perKey : TRUE).fmt
     ELSE IF options.arrayFormat # "" THEN options.arrayFormat
     ELSE "repeat"
\* a call of parseQuery whose query holds the array key tags, its format fmt
ParsedTags(fmt) ==
  /\ codec.op = "parseQuery"
  /\ HasKey(codec.query, K_tags)
  /\ FormatGiven(codec.options, K_tags) = fmt
OnlyTags == \A i \in DOMAIN codec.query : codec.query[i].k = K_tags
TagItems(m) == [i \in DOMAIN Get(m, K_tags).a |-> Get(m, K_tags).a[i].s]

\* C11: with the json format, an array field whose first raw entry is not
\* well-formed JSON is parsed as the empty sequence and nothing is raised.
C11_MalformedJsonIsEmpty ==
  (ParsedTags("json") /\ ~JsonParse(RawEntries(codec.query, K_tags)[1]).ok) =>
    /\ codec.interim.kind = "ok"
    /\ Get(codec.interim.value, K_tags) = Arr(<<>>)
    /\ OnlyTags => codec.ret = Ok(<<[k |-> K_tags, v |-> Arr(<<>>)]>>)

C11_Witness ==
  /\ ParsedTags("json")
  /\ RawEntries(codec.query, K_tags) = << <<"[", "i">>, JsonStringify(<< <<"a">>, <<"b">> >>) >>
  /\ codec.ret = Ok(<<[k |-> K_tags, v |-> Arr(<<>>)]>>)

\* C12: with the comma format only the first raw entry of the key is split
\* by ","; later entries are ignored, and an empty first entry gives the
\* empty sequence, not a sequence holding one empty string.
C12_CommaSplitsFirstEntry ==
  ParsedTags("comma") =>
    LET first == RawEntries(codec.query, K_tags)[1]
    IN /\ codec.interim.kind = "ok"
       /\ Get(codec.interim.value, K_tags).t = "array"
       /\ LET items == TagItems(codec.interim.value)
          IN /\ first = <<>> => items = <<>>
             /\ first # <<>> =>
                  /\ items # <<>>
                  /\ \A i \in DOMAIN items : IndexOf(items[i], ",") = 0
                  /\ Join(items, <<",">>) = first
       /\ OnlyTags =>
            /\ codec.ret.kind = "ok"
            /\ Get(codec.ret.value, K_tags) = Get(codec.interim.value, K_tags)

C12_Witness ==
  /\ ParsedTags("comma")
  /\ RawEntries(codec.query, K_tags) = << <<"a", ",", "b">>, <<"a">> >>
  /\ codec.ret = Ok(<<[k |-> K_tags, v |-> Strings(<< <<"a">>, <<"b">> >>)]>>)

\* how the code handles a format string: anything but comma and json as repeat
HandledAs(fmt) == IF fmt \in {"comma", "json"} THEN fmt ELSE "repeat"
BuiltTags ==
  /\ codec.op = "buildQuery"
  /\ Has(codec.cleaned, K_tags)

\* parseQuery decodes and buildQuery encodes the array key tags in format fmt
UsesFormat(fmt) ==
  LET entries == RawEntries(codec.query, K_tags)
  IN /\ (codec.op = "parseQuery" /\ HasKey(codec.query, K_tags)) =>
          LET got == deserializeArray(HandledAs(fmt), K_tags, entries)
          IN /\ got.t = "array" =>
                  /\ codec.interim.kind = "ok"
                  /\ Get(codec.interim.value, K_tags)
                       = Strings([i \in DOMAIN got.a |-> JsString(got.a[i])])
             /\ fmt \notin {"comma", "json"} =>
                  /\ codec.interim.kind = "ok"
                  /\ Get(codec.interim.value, K_tags) = Strings(entries)
     /\ BuiltTags =>
          /\ entries = [i \in DOMAIN
                          serializeArray(HandledAs(fmt), K_tags, TagItems(codec.cleaned)) |->
                          serializeArray(HandledAs(fmt), K_tags, TagItems(codec.cleaned))[i].v]
          /\ fmt \notin {"comma", "json"} => entries = TagItems(codec.cleaned)

\* the per-key format whenever the key has an entry in arrayKeyFormat
FormatStated(options, k) ==
  LET perKey == {e \in {options.arrayKeyFormat[i] : i \in DOMAIN options.arrayKeyFormat} :
                   e.k = k}
  IN IF perKey # {} THEN (CHOOSE e \in perKey : TRUE).fmt
     ELSE IF options.arrayFormat # "" THEN options.arrayFormat
     ELSE "repeat"

\* C13 as stated: parseQuery and buildQuery use for an array field the
\* per-key format when given, otherwise the call's arrayFormat, otherwise
\* repeat; a format that is none of repeat, comma and json raises nothing
\* and acts as repeat.
C13_FormatAsStated ==
  (codec.op \in {"parseQuery", "buildQuery"}) =>
    UsesFormat(FormatStated(codec.options, K_tags))

\* C13 amended: the format used is the per-key format when that is given and
\* is not the empty string, otherwise the call's arrayFormat, otherwise
\* repeat; a format that is none of repeat, comma and json raises nothing
\* and acts as repeat.
C13_FormatPrecedence ==
  (codec.op \in {"parseQuery", "buildQuery"}) =>
    UsesFormat(FormatGiven(codec.options, K_tags))

C13_Witness ==
  /\ ParsedTags("json")
  /\ codec.options.arrayFormat = "comma"
  /\ RawEntries(codec.query, K_tags) = <<JsonStringify(<< <<"a">>, <<"b">> >>)>>
  /\ codec.ret = Ok(<<[k |-> K_tags, v |-> Strings(<< <<"a">>, <<"b">> >>)]>>)

(***************************************************************************)
(* Claims about cleanObject, mergeFilters and buildUrl                     *)
(***************************************************************************)
\* undefined, null, or a string of no characters or of whitespace only
Blank(v) ==
  \/ v.t \in {"undefined", "null"}
  \/ v.t = "string" /\ \A i \in DOMAIN v.s : IsWhite(v.s[i])
\* m without the entries whose index is not in keep, order kept
RECURSIVE Restrict(_, _)
Restrict(m, keep) ==
  IF m = <<>> THEN <<>>
  ELSE Restrict(SubSeq(m, 1, Len(m) - 1), keep)
         \o (IF Len(m) \in keep THEN <<m[Len(m)]>> ELSE <<>>)

\* C14: cleanObject handles each entry on its own: a string is trimmed when
\* trimStrings is set; an entry whose value is undefined, null or a blank
\* string is omitted when dropEmpty is set; every other entry is kept with
\* its (possibly trimmed) value; false, 0 and arrays are never omitted and
\* never changed.
C14_CleanObjectPerEntry ==
  codec.op = "cleanObject" =>
    LET m == codec.filters
        r == codec.ret.value
        o == codec.options
        kept == {i \in DOMAIN m : ~(o.dropEmpty /\ Blank(m[i].v))}
        survivors == Restrict(m, kept)
    IN /\ Len(r) = Len(survivors)
       /\ \A i \in DOMAIN survivors :
            /\ r[i].k = survivors[i].k
            /\ r[i].v = IF o.trimStrings /\ survivors[i].v.t = "string"
                        THEN Str(Trim(survivors[i].v.s))
                        ELSE survivors[i].v
       /\ \A i \in DOMAIN m :
            m[i].v \in {Bool(FALSE), Num(0), Arr(<<>>)} =>
              Has(r, m[i].k) /\ Get(r, m[i].k) = m[i].v

C14_Witness ==
  /\ codec.op = "cleanObject"
  /\ codec.options.dropEmpty /\ codec.options.trimStrings
  /\ codec.filters = <<[k |-> K_name, v |-> Str(<<" ">>)], [k |-> K_tags, v |-> Arr(<<>>)]>>
  /\ codec.ret.value = <<[k |-> K_tags, v |-> Arr(<<>>)]>>

\* C15: cleanObject is idempotent: cleaning what cleanObject returned, with
\* the same options, returns it unchanged.
C15_CleanObjectIdempotent ==
  codec.op = "cleanObjectAgain" => codec.ret.value = codec.filters

C15_Witness ==
  /\ codec.op = "cleanObjectAgain"
  /\ codec.options.trimStrings /\ codec.options.dropEmpty
  /\ codec.filters = <<[k |-> K_name, v |-> Str(<<"a">>)], [k |-> K_age, v |-> Num(0)]>>
  /\ codec.ret.value = codec.filters

\* C16: mergeFilters is a shallow right-biased merge: a key of next takes
\* next's value, every other key current's value; with dropEmpty the merged
\* mapping is cleaned with dropEmpty only (no trimming), so a key that next
\* sets to undefined, null or a blank string is absent from the result even
\* if current held a value for it.
C16_MergeRightBiased ==
  codec.op = "mergeFilters" =>
    LET current == codec.filters
        next == codec.next
        r == codec.ret.value
        Merged(k) == IF Has(next, k) THEN Get(next, k) ELSE Get(current, k)
    IN /\ Keys(r) \subseteq Keys(current) \cup Keys(next)
       /\ \A k \in Keys(current) \cup Keys(next) :
            IF codec.options.dropEmpty /\ Blank(Merged(k))
            THEN ~Has(r, k)
            ELSE Has(r, k) /\ Get(r, k) = Merged(k)

C16_Witness ==
  /\ codec.op = "mergeFilters"
  /\ codec.options.dropEmpty
  /\ codec.filters = <<[k |-> K_name, v |-> Str(<<" ", "a", " ">>)], [k |-> K_age, v |-> Num(0)]>>
  /\ codec.next = <<[k |-> K_age, v |-> Undef]>>
  /\ codec.ret.value = <<[k |-> K_name, v |-> Str(<<" ", "a", " ">>)]>>

\* C17: buildUrl returns baseUrl unchanged when the built query string is
\* empty; otherwise baseUrl + sep + queryString, sep being "?" when baseUrl
\* holds no "?", "" when it holds one and ends in "?" or "&", and "&" when
\* it holds one and ends in anything else.
C17_BuildUrlSeparator ==
  codec.op = "buildUrl" =>
    LET qs == ParamsToString(codec.query)
        base == codec.base
        hasQ == \E i \in DOMAIN base : base[i] = "?"
        last == IF base = <<>> THEN "" ELSE base[Len(base)]
        sep == IF ~hasQ THEN <<"?">>
               ELSE IF last \in {"?", "&"} THEN <<>> ELSE <<"&">>
    IN IF qs = <<>> THEN codec.text = base
       ELSE codec.text = base \o sep \o qs

C17_Witness ==
  /\ codec.op = "buildUrl"
  /\ codec.base = <<"/", "a", "?", "x", "=", "1", "&">>
  /\ codec.filters = <<[k |-> K_name, v |-> Str(<<" ", "a", " ">>)]>>
  /\ codec.text = codec.base \o <<"n", "a", "m", "e", "=", "+", "a", "+">>

(***************************************************************************)
(* Claims about buildQuery and about array fields                          *)
(***************************************************************************)
\* C18: buildQuery cleans the whole filter mapping before any encoding: with
\* dropEmpty no pair is emitted for a key whose value is undefined, null or
\* a blank string, and a mapping holding only such values builds the empty
\* query string.
C18_BuildDropsEmpty ==
  (codec.op = "buildQuery" /\ codec.options.dropEmpty) =>
    LET m == codec.filters
    IN /\ \A i \in DOMAIN m : Blank(m[i].v) => ~HasKey(codec.query, m[i].k)
       /\ (\A i \in DOMAIN m : Blank(m[i].v)) => codec.query = <<>> /\ codec.text = <<>>

C18_Witness ==
  /\ codec.op = "buildQuery"
  /\ codec.options.dropEmpty /\ codec.options.trimStrings
  /\ codec.filters = <<[k |-> K_name, v |-> Str(<<" ">>)]>>
  /\ codec.text = <<>>

\* the number of pairs an entry of the cleaned mapping is to contribute
PairCount(e) ==
  IF e.k = K_tags /\ HandledAs(FormatGiven(codec.options, K_tags)) = "repeat"
  THEN Len(e.v.a)
  ELSE 1

\* C19: buildQuery emits keys in the order of the cleaned filter mapping; an
\* array field under repeat gives one pair per item, in item order, under
\* the same key, under comma or json exactly one pair; a scalar field gives
\* exactly one pair.
C19_BuildOrder ==
  codec.op = "buildQuery" =>
    LET cleaned == codec.cleaned
        expected == Flatten([i \in DOMAIN cleaned |->
                               [j \in 1..PairCount(cleaned[i]) |-> cleaned[i].k]])
    IN /\ [i \in DOMAIN codec.query |-> codec.query[i].k] = expected
       /\ (Has(cleaned, K_tags)
             /\ HandledAs(FormatGiven(codec.options, K_tags)) = "repeat") =>
            RawEntries(codec.query, K_tags) = TagItems(cleaned)

C19_Witness ==
  /\ codec.op = "buildQuery"
  /\ codec.options.arrayFormat = "repeat"
  /\ codec.filters = <<[k |-> K_tags, v |-> Strings(<< <<"b", " ", "c">>, <<"a">> >>)],
                       [k |-> K_active, v |-> Bool(FALSE)]>>
  /\ codec.query = <<[k |-> K_tags, v |-> <<"b", " ", "c">>], [k |-> K_tags, v |-> <<"a">>],
                     [k |-> K_active, v |-> S_false]>>

\* C20: in every mapping parseQuery returns, a field the schema declares as
\* an array, wrapped in optional/nullable or not, is present only as an
\* ordered sequence, never as a scalar, in every array format and also when
\* the key occurs once in the query.
C20_ArrayFieldIsSequence ==
  codec.op \in {"parseQuery", "roundTripArray"} =>
    /\ (codec.ret.kind = "ok" /\ Has(codec.ret.value, K_tags)) =>
         Get(codec.ret.value, K_tags).t = "array"
    /\ (codec.op = "parseQuery" /\ HasKey(codec.query, K_tags)) =>
         /\ codec.interim.kind = "ok" => Get(codec.interim.value, K_tags).t = "array"
         /\ codec.ret.kind = "ok" => Has(codec.ret.value, K_tags)

C20_Witness ==
  /\ codec.op = "parseQuery"
  /\ codec.shape = ArraySchema("nullable")
  /\ codec.query = <<[k |-> K_tags, v |-> <<"a">>]>>
  /\ codec.options.arrayFormat = ""
  /\ codec.ret = Ok(<<[k |-> K_tags, v |-> Strings(<< <<"a">> >>)]>>)

(***************************************************************************)
(* Claims about keys of parseQuery and buildQuery                          *)
(***************************************************************************)
ScalarKeys(shape) ==
  {shape[i].k : i \in {j \in DOMAIN shape : ~isArrayType(shape[j].ty)}}

\* C21: when the key of a scalar schema field occurs several times in the
\* query, parseQuery takes the last occurrence as the field's value; the
\* earlier occurrences have no effect.
C21_LastOccurrenceWins ==
  codec.op = "parseQuery" =>
    \A k \in ScalarKeys(codec.shape) :
      (HasKey(codec.query, k) /\ codec.interim.kind = "ok") =>
        Get(codec.interim.value, k) =
          IF codec.options.coerceTypes
          THEN coerceValue(Field(codec.shape, k), LastRaw(codec.query, k))
          ELSE Str(LastRaw(codec.query, k))

C21_Witness ==
  /\ codec.op = "parseQuery"
  /\ codec.options.coerceTypes
  /\ codec.query = <<[k |-> K_age, v |-> <<"x">>], [k |-> K_age, v |-> <<"1">>]>>
  /\ codec.ret = Ok(<<[k |-> K_age, v |-> Num(1)]>>)

\* C22: a query key the schema does not declare is dropped from the interim
\* mapping when stripUnknown is set; otherwise it is carried uncoerced, as
\* one string when it occurs once and as the ordered sequence of its values
\* when it occurs more than once.
C22_UnknownKeyCarried ==
  (codec.op = "parseQuery" /\ HasKey(codec.query, K_unknown)
     /\ codec.interim.kind = "ok") =>
    LET entries == RawEntries(codec.query, K_unknown)
    IN IF codec.options.stripUnknown
       THEN ~Has(codec.interim.value, K_unknown)
       ELSE /\ Has(codec.interim.value, K_unknown)
            /\ Get(codec.interim.value, K_unknown) =
                 IF Len(entries) = 1 THEN Str(entries[1]) ELSE Strings(entries)

C22_Witness ==
  /\ codec.op = "parseQuery"
  /\ ~codec.options.stripUnknown /\ codec.options.coerceTypes
  /\ codec.query = <<[k |-> K_unknown, v |-> <<"w">>], [k |-> K_unknown, v |-> <<"v">>]>>
  /\ Get(codec.interim.value, K_unknown) = Strings(<< <<"w">>, <<"v">> >>)
  /\ codec.ret = Ok(<<>>)

\* C27: with dropEmpty, the mapping parseQuery submits to validation holds
\* no scalar entry whose raw query value was empty or whitespace-only,
\* whatever the field's kind and whether or not coerceTypes is set.
C27_NoBlankReachesValidation ==
  (codec.op = "parseQuery" /\ codec.options.dropEmpty /\ codec.interim.kind = "ok") =>
    \A k \in ScalarKeys(codec.shape) :
      (HasKey(codec.query, k) /\ Trim(LastRaw(codec.query, k)) = <<>>) =>
        ~Has(codec.cleaned, k)

\* C23 as stated: in buildQuery an undeclared key is emitted as one pair
\* holding the string form of its value when stripUnknown is not set and the
\* value is not undefined, and is never emitted otherwise.
C23_UnknownKeyEmitted ==
  (codec.op = "buildQuery" /\ Has(codec.filters, K_unknown)) =>
    LET v == Get(codec.filters, K_unknown)
    IN IF ~codec.options.stripUnknown /\ v.t # "undefined"
       THEN RawEntries(codec.query, K_unknown) = <<JsString(v)>>
       ELSE ~HasKey(codec.query, K_unknown)

\* C23 amended: an undeclared key of the cleaned filter mapping is emitted
\* as one pair holding the string form of its cleaned value when
\* stripUnknown is not set and the value is not undefined; a key that
\* cleaning dropped, a key under stripUnknown and an undefined value are
\* never emitted.
C23_CleanedUnknownKeyEmitted ==
  (codec.op = "buildQuery" /\ Has(codec.filters, K_unknown)) =>
    LET v == Get(codec.cleaned, K_unknown)
    IN IF Has(codec.cleaned, K_unknown) /\ ~codec.options.stripUnknown
            /\ v.t # "undefined"
       THEN RawEntries(codec.query, K_unknown) = <<JsString(v)>>
       ELSE ~HasKey(codec.query, K_unknown)

C23_Witness ==
  /\ codec.op = "buildQuery"
  /\ ~codec.options.stripUnknown /\ ~codec.options.dropEmpty
  /\ codec.filters = <<[k |-> K_name, v |-> Str(<<"a">>)], [k |-> K_unknown, v |-> Null]>>
  /\ codec.query = <<[k |-> K_name, v |-> <<"a">>], [k |-> K_unknown, v |-> S_null]>>

(***************************************************************************)
(* Claims about coercion and the forms of the input                        *)
(***************************************************************************)
\* a letter and its other case
OtherCase(c) ==
  CASE c = "t" -> "T" [] c = "r" -> "R" [] c = "u" -> "U" [] c = "e" -> "E"
    [] c = "y" -> "Y" [] c = "s" -> "S" [] c = "n" -> "N" [] c = "o" -> "O"
    [] c = "f" -> "F" [] c = "a" -> "A" [] c = "l" -> "L" [] OTHER -> c
\* raw spells word, whatever the case of its letters
Spells(raw, word) ==
  /\ Len(raw) = Len(word)
  /\ \A i \in DOMAIN word : raw[i] \in {word[i], OtherCase(word[i])}
\* the value a raw string is to have after coercion to boolean
AsBoolean(raw) ==
  IF \E w \in {<<"1">>, S_true, S_yes} : Spells(raw, w) THEN Bool(TRUE)
  ELSE IF \E w \in {<<"0">>, S_false, S_no} : Spells(raw, w) THEN Bool(FALSE)
  ELSE Str(raw)
BoolParsed ==
  /\ codec.op = "parseQuery"
  /\ \E wrap \in Wraps : codec.shape = BoolSchema(wrap)
  /\ codec.interim.kind = "ok"
\* the elements decoded for an array key, before coercion
Decoded(k) ==
  LET got == deserializeArray(HandledAs(FormatGiven(codec.options, k)), k,
                              RawEntries(codec.query, k))
  IN [i \in DOMAIN got.a |-> JsString(got.a[i])]

\* C24: with coerceTypes a boolean field's raw value is matched whatever its
\* case: 1, true, yes become true, 0, false, no become false, any other raw
\* value stays the unchanged raw string; optional/nullable wrappers are
\* unwrapped first, and the elements of an array field are coerced the same
\* way by the element kind.
C24_BooleanCoercion ==
  (BoolParsed /\ codec.options.coerceTypes) =>
    /\ HasKey(codec.query, K_active) =>
         Get(codec.interim.value, K_active) = AsBoolean(LastRaw(codec.query, K_active))
    /\ HasKey(codec.query, K_flags) =>
         Get(codec.interim.value, K_flags) =
           Arr([i \in DOMAIN Decoded(K_flags) |-> AsBoolean(Decoded(K_flags)[i])])
    /\ HasKey(codec.query, K_tags) =>
         Get(codec.interim.value, K_tags) = Strings(Decoded(K_tags))

C24_Witness ==
  /\ BoolParsed /\ codec.options.coerceTypes
  /\ codec.shape = BoolSchema("nullable")
  /\ codec.options.arrayFormat = "comma"
  /\ codec.query = <<[k |-> K_active, v |-> <<"Y", "e", "s">>],
                     [k |-> K_flags, v |-> <<"x", ",", "0">>]>>
  /\ codec.interim.value = <<[k |-> K_active, v |-> Bool(TRUE)],
                             [k |-> K_flags, v |-> Arr(<<Str(<<"x">>), Bool(FALSE)>>)]>>

\* C25 as stated: a string with a leading "?" parses exactly like the same
\* string without it, whatever the string.
C25_MarkIgnoredAlways == codec.op = "parseForms" => codec.retMarked = codec.ret

\* What does hold of the input forms: a string with a leading "?" parses
\* like the same string without it unless that string itself begins with
\* "??"; a query multimap parses exactly like the string made from it; the
\* empty string parses to {} when every field is optional.
C25_InputForms ==
  codec.op = "parseForms" =>
    /\ ~StartsWith(codec.text, <<"?", "?">>) => codec.retMarked = codec.ret
    /\ codec.text = ParamsToString(codec.query) => codec.retParams = codec.ret
    /\ codec.text = <<>> => codec.ret = Ok(<<>>)

C25_Witness ==
  /\ codec.op = "parseForms"
  /\ codec.options.coerceTypes
  /\ codec.text = <<"?", "a", "g", "e", "=", "1", "&", "n", "a", "m", "e", "=",
                    "a", "+", "%", "2", "6">>
  /\ codec.ret = Ok(<<[k |-> K_name, v |-> Str(<<"a", " ", "&">>)],
                      [k |-> K_age, v |-> Num(1)]>>)
  /\ codec.retMarked = codec.ret

\* C30: coercion sees the raw, untrimmed value and trimStrings acts only
\* afterwards, on values still strings: with coerceTypes and trimStrings a
\* boolean field's raw value with surrounding whitespace is not converted
\* and reaches validation as the trimmed string; the elements of array
\* fields are never trimmed or dropped by cleaning.
C30_CoercionBeforeTrim ==
  BoolParsed =>
    /\ (codec.options.coerceTypes /\ codec.options.trimStrings
          /\ HasKey(codec.query, K_active)) =>
         LET raw == LastRaw(codec.query, K_active)
         IN (Trim(raw) # raw /\ Trim(raw) # <<>>) =>
              /\ Get(codec.interim.value, K_active) = Str(raw)
              /\ Get(codec.cleaned, K_active) = Str(Trim(raw))
              /\ codec.ret = Throw("ZodError")
    /\ \A k \in {K_flags, K_tags} :
         Has(codec.interim.value, k) =>
           Has(codec.cleaned, k) /\ Get(codec.cleaned, k) = Get(codec.interim.value, k)

C30_Witness ==
  /\ BoolParsed
  /\ codec.options.coerceTypes /\ codec.options.trimStrings /\ codec.options.dropEmpty
  /\ codec.query = <<[k |-> K_active, v |-> <<" ", "t", "r", "u", "e">>],
                     [k |-> K_tags, v |-> <<" ", "a", " ">>], [k |-> K_tags, v |-> <<>>]>>
  /\ codec.cleaned = <<[k |-> K_active, v |-> Str(S_true)],
                       [k |-> K_tags, v |-> Strings(<< <<" ", "a", " ">>, <<>> >>)]>>

(***************************************************************************)
(* The debounce closure's invariant                                        *)
(***************************************************************************)
Waiting == {pendingResolvers[i] : i \in DOMAIN pendingResolvers}
\* a step of the timer callback, of cancel() or of flush()
Round == execs' # execs \/ directCalls' # directCalls

\* C29: in every reachable state a timer is pending if and only if the list
\* of pending callers is non-empty; every caller's promise is settled at
\* most once, by the first timer fire, cancel or flush after its invocation,
\* and never by a later round.
C29_TimerIffPending ==
  /\ [](/\ (timeoutId # 0) <=> (pendingResolvers # <<>>)
        /\ (timers # {}) <=> (pendingResolvers # <<>>)
        /\ \A t \in timers : t.id = timeoutId
        /\ \A c \in DOMAIN promises : (promises[c].state = "pending") <=> (c \in Waiting))
  /\ [][/\ \A c \in DOMAIN promises :
             promises[c].state # "pending" => promises'[c] = promises[c]
        /\ Round => \A c \in DOMAIN promises : promises'[c].state # "pending"
        /\ ~Round => \A c \in DOMAIN promises : promises'[c].state = promises[c].state]_vars

C29_Witness ==
  /\ Len(promises) = 3
  /\ promises[1].by = "timer" /\ promises[2].by = "cancel"
  /\ promises[3].state = "pending"
  /\ pendingResolvers = <<3>>
  /\ timeoutId # 0 /\ timers # {}

(***************************************************************************)
(* Claims about the hook                                                   *)
(***************************************************************************)
HookBasePath == BasePathOf(hook.basePath, hook.window)
HookBuildOptions == SpreadOptions(HookBuildDefaults, hook.build)
\* the step is a call of setFilters or of reset
Pushing == hook'.op \in {"setFilters", "reset"} /\ hook' # hook

\* Each setFilters(next) hands pushUrl exactly one URL, the one built from
\* the filters merged with next (dropEmpty), each reset(defaults) exactly
\* one URL built from defaults alone; neither changes filters, and a render
\* pushes nothing.
C26_PushesOnce ==
  [][/\ Pushing =>
          /\ Len(hook'.pushed) = Len(hook.pushed) + 1
          /\ SubSeq(hook'.pushed, 1, Len(hook.pushed)) = hook.pushed
          /\ hook'.filters = hook.filters /\ hook'.search = hook.search
          /\ hook'.memo = hook.memo
          /\ hook'.op = "setFilters" =>
               Last(hook'.pushed) =
                 buildUrl(HookBasePath, EdgeSchema,
                          mergeFilters(hook.filters.value, hook'.arg,
                                       [NoOptions EXCEPT !.dropEmpty = TRUE]),
                          HookBuildOptions)
          /\ hook'.op = "reset" =>
               Last(hook'.pushed) =
                 buildUrl(HookBasePath, EdgeSchema, hook'.arg, HookBuildOptions)
     /\ ~Pushing => hook'.pushed = hook.pushed]_vars

\* C26 as stated: in useFiltersGeneric, filters is always parseQuery of the
\* current search string with coerceTypes, dropEmpty, trimStrings and
\* stripUnknown defaulting to true (opts.parse overriding them); each
\* setFilters(next) pushes exactly once the URL of the merged filters, each
\* reset(defaults) exactly once the URL built from defaults alone, and
\* neither changes filters except through a changed search string.
C26_HookContract ==
  /\ [](hook.op # "none" =>
          hook.filters = parseQuery(EdgeSchema, hook.search,
                                    SpreadOptions(HookParseDefaults, hook.parse)))
  /\ C26_PushesOnce

(***************************************************************************)
(* Claims about the objects the codec is given                             *)
(***************************************************************************)
\* C28: cleanObject, mergeFilters, resetFilters, buildQuery and parseQuery
\* never modify their arguments (the input mappings, the defaults, the query
\* multimap, the schema): no object that exists before a call differs after
\* it, each call that returns returns an object built during the call, and
\* two calls with equal inputs return equal results whatever calls were made
\* in between.
C28_ArgumentsUntouched ==
  /\ [][\A r \in DOMAIN heap.cells :
          r \in DOMAIN heap'.cells /\ heap'.cells[r] = heap.cells[r]]_vars
  /\ [](\A i \in DOMAIN heap.calls :
          LET c == heap.calls[i]
          IN /\ c.ret # 0 => c.ret > c.before /\ heap.cells[c.ret] = c.out
             /\ \A a \in DOMAIN c.args :
                  c.args[a] # 0 => heap.cells[c.args[a]] = c.in[a]
             /\ \A j \in DOMAIN heap.calls :
                  LET d == heap.calls[j]
                  IN (d.op = c.op /\ d.options = c.options /\ d.in = c.in) =>
                       d.out = c.out)

\* a mapping cleaned twice with another call in between, the first result
\* then cleaned again: the argument is as the caller made it
C28_Witness ==
  /\ Len(heap.calls) = 2
  /\ heap.calls[1].op = "cleanObject" /\ heap.calls[2].op = "buildQuery"
  /\ heap.calls[1].args = <<2>> /\ heap.calls[2].args = <<A_schema, 2>>
  /\ heap.calls[1].options.trimStrings /\ heap.calls[2].options.trimStrings
  /\ heap.calls[1].out # heap.calls[1].in[1]
  /\ heap.cells[2] = heap.calls[1].in[1]
  /\ heap.calls[2].in[2] = heap.calls[1].in[1]

====
